---------------------------- MODULE Spec2Model ----------------------------
(***************************************************************************)
(* envsimple CLI: the versioned synchronization protocol (pull, push,      *)
(* rollback) between a working directory and the remote snapshot store,    *)
(* with the env-text codec, the override merge, the version tracker and    *)
(* the backup chain it rests on.                                            *)
(*                                                                         *)
(* Texts (file contents, snapshot plaintexts) are sequences of one-        *)
(* character strings, so that parsing, formatting and line-ending          *)
(* normalisation are computed character by character as the code does.     *)
(***************************************************************************)
EXTENDS Naturals, Sequences, FiniteSets, TLC

(***************************************************************************)
(* Bounds of the model.                                                    *)
(***************************************************************************)
\* Commands started in one run, over all clients.
MaxCmds == 2
\* Requests that fail in one run (transport, authentication, lookup).
MaxFaults == 1

(***************************************************************************)
(* Text primitives (String.prototype.trim / split / replace / indexOf).    *)
(***************************************************************************)
\* The characters String.prototype.trim removes, among those of the model.
IsSpace(ch) == ch \in {" ", "\t", "\r", "\n"}

RECURSIVE TrimStart(_)
TrimStart(s) ==
  IF s = <<>> THEN <<>>
  ELSE IF IsSpace(Head(s)) THEN TrimStart(Tail(s)) ELSE s

RECURSIVE TrimEnd(_)
TrimEnd(s) ==
  IF s = <<>> THEN <<>>
  ELSE IF IsSpace(s[Len(s)]) THEN TrimEnd(SubSeq(s, 1, Len(s) - 1)) ELSE s

Trim(s) == TrimEnd(TrimStart(s))

\* content.split('\n'): the pieces between the newlines (always at least one).
RECURSIVE SplitFrom(_, _, _)
SplitFrom(s, i, cur) ==
  IF i > Len(s) THEN <<cur>>
  ELSE IF s[i] = "\n" THEN <<cur>> \o SplitFrom(s, i + 1, <<>>)
  ELSE SplitFrom(s, i + 1, Append(cur, s[i]))

SplitLines(s) == SplitFrom(s, 1, <<>>)

\* s.indexOf(ch), 1-based; 0 when ch does not occur.
RECURSIVE IndexFrom(_, _, _)
IndexFrom(s, ch, i) ==
  IF i > Len(s) THEN 0
  ELSE IF s[i] = ch THEN i ELSE IndexFrom(s, ch, i + 1)

IndexOf(s, ch) == IndexFrom(s, ch, 1)

\* s.replace(/\r\n/g, '\n')
RECURSIVE ReplaceCRLF(_)
ReplaceCRLF(s) ==
  IF s = <<>> THEN <<>>
  ELSE IF Len(s) >= 2 /\ s[1] = "\r" /\ s[2] = "\n"
       THEN <<"\n">> \o ReplaceCRLF(SubSeq(s, 3, Len(s)))
       ELSE <<s[1]>> \o ReplaceCRLF(Tail(s))

\* The comparison form pull uses: line endings normalised, then trimmed.
Normalized(s) == Trim(ReplaceCRLF(s))

(***************************************************************************)
(* Env mappings: functions from key texts to value texts.                  *)
(***************************************************************************)
EmptyEnv == <<>>

\* Put keeping the value a key already has: the first occurrence wins.
PutFirst(m, k, v) == [x \in (DOMAIN m) \cup {k} |-> IF x \in DOMAIN m THEN m[x] ELSE v]

Put(m, k, v) == [x \in (DOMAIN m) \cup {k} |-> IF x = k THEN v ELSE m[x]]

\* DeleteKeys removing nothing.
DeleteKeysNone(m, ks) == m

\* delete env[key] for every key of ks.
DeleteKeys(m, ks) == [x \in (DOMAIN m) \ ks |-> m[x]]

\* applyOverrides with the spread operands exchanged: the base wins.
applyOverridesBaseWins(baseEnv, overrides) ==
  [k \in (DOMAIN baseEnv) \cup (DOMAIN overrides) |->
     IF k \in DOMAIN baseEnv THEN baseEnv[k] ELSE overrides[k]]

\* { ...baseEnv, ...overrides }
applyOverrides(baseEnv, overrides) ==
  [k \in (DOMAIN baseEnv) \cup (DOMAIN overrides) |->
     IF k \in DOMAIN overrides THEN overrides[k] ELSE baseEnv[k]]

\* One line of parseEnvContent applied to the mapping built so far.
ParseLine(result, line) ==
  LET trimmed == Trim(line)
      equalIndex == IndexOf(trimmed, "=")
  IN IF trimmed = <<>> \/ Head(trimmed) = "#" THEN result
     ELSE IF equalIndex = 0 THEN result
     ELSE LET key == Trim(SubSeq(trimmed, 1, equalIndex - 1))
              raw == Trim(SubSeq(trimmed, equalIndex + 1, Len(trimmed)))
              quoted == /\ raw # <<>>
                        /\ \/ (Head(raw) = "\"" /\ raw[Len(raw)] = "\"")
                           \/ (Head(raw) = "'" /\ raw[Len(raw)] = "'")
              \* substring(1, length - 1); on a lone quote character the
              \* arguments are 1 and 0, which substring swaps: the value stays
              value == IF quoted /\ Len(raw) > 1 THEN SubSeq(raw, 2, Len(raw) - 1) ELSE raw
          IN Put(result, key, value)

RECURSIVE ParseLines(_, _)
ParseLines(result, lines) ==
  IF lines = <<>> THEN result
  ELSE ParseLines(ParseLine(result, Head(lines)), Tail(lines))

parseEnvContent(content) == ParseLines(EmptyEnv, SplitLines(content))

\* Collation rank of a character under String.prototype.localeCompare
\* (lower case before upper case of the same letter, letters after digits).
CollRank(ch) ==
  CASE ch = "1" -> 1 [] ch = "2" -> 2 [] ch = "3" -> 3
    [] ch = "a" -> 11 [] ch = "A" -> 12
    [] ch = "b" -> 13 [] ch = "B" -> 14
    [] OTHER -> 0

\* a.localeCompare(b) < 0 for the keys of the model.
RECURSIVE KeyLess(_, _)
KeyLess(a, b) ==
  IF b = <<>> THEN FALSE
  ELSE IF a = <<>> THEN TRUE
  ELSE IF CollRank(Head(a)) # CollRank(Head(b))
       THEN CollRank(Head(a)) < CollRank(Head(b))
       ELSE KeyLess(Tail(a), Tail(b))

\* Object.entries(env).sort(...): the keys in ascending order.
RECURSIVE SortedKeys(_)
SortedKeys(ks) ==
  IF ks = {} THEN <<>>
  ELSE LET least == CHOOSE k \in ks : \A o \in ks \ {k} : KeyLess(k, o)
       IN <<least>> \o SortedKeys(ks \ {least})

\* /[\s#]/.test(value)
NeedsQuotes(value) == \E i \in 1..Len(value) : IsSpace(value[i]) \/ value[i] = "#"

FormatEntry(key, value) ==
  key \o <<"=">> \o (IF NeedsQuotes(value) THEN <<"\"">> \o value \o <<"\"">> ELSE value)

\* lines.join('\n')
RECURSIVE JoinLines(_)
JoinLines(lines) ==
  IF lines = <<>> THEN <<>>
  ELSE IF Len(lines) = 1 THEN Head(lines)
  ELSE Head(lines) \o <<"\n">> \o JoinLines(Tail(lines))

formatEnvContent(env) ==
  LET keys == SortedKeys(DOMAIN env)
  IN JoinLines([i \in 1..Len(keys) |-> FormatEntry(keys[i], env[keys[i]])]) \o <<"\n">>

(***************************************************************************)
(* The universe of the model.                                              *)
(***************************************************************************)
Clients == {"c1", "c2"}
Org == "acme"
Project == "api"
Environments == {"dev", "prod"}
\* The environment names a context file may hold: "qa" is in no listing.
Contexts == Environments \cup {"qa"}

\* Answers a user can give at a confirm prompt; "cancel" is Ctrl+C.
Answers == {"yes", "no", "cancel"}
\* Outcome of one HTTP request: a response, or a transport failure.
Net == {"ok", "fail"}
\* How a command is invoked: no flag, --force, --token or --json.
Modes == {"plain", "force", "token", "json"}
\* c1 is the working directory under study and uses every mode; c2 is a
\* teammate's, working on the same environment without flags.
ModesOf(c) == IF c = "c1" THEN Modes ELSE {"plain"}

\* An optional number: <<>> is undefined, <<n>> is n.
Undefined == <<>>
Some(n) == <<n>>

\* A file that does not exist, and a file holding a text.
NoFile == [exists |-> FALSE, content |-> <<>>]
File(text) == [exists |-> TRUE, content |-> text]

\* Snapshot plaintexts and working-file contents the model starts from.
TextA2 == <<"A", "=", "2", "\n">>
TextA2B3crlf == <<"A", "=", "2", "\r", "\n", "B", "=", "3", "\r", "\n">>
TextA3 == <<"A", "=", "3", "\n">>
TextBlank == <<" ", "\n">>
\* What format gives for a mapping without keys.
TextNone == <<"\n">>

\* The overrides a .envsimple.local may declare.
OverrideB == (<<"B">> :> <<"3">>)

VARIABLES
  remote,          \* environment -> the sequence of its versions (index = version_number)
  envFile,         \* client -> .env of its working directory
  backupFile,      \* client -> .env.copy
  gitignore,       \* client -> .gitignore of its working directory
  tracker,         \* client -> version-tracker.json: key -> entry
  localOverrides,  \* client -> the overrides mapping of .envsimple.local
  context,         \* the environment the shared context file (.envsimple) names
                   \* ("": the file holds org and project and no environment)
  localContext,    \* client -> its .envsimple.local as a context file
  faults,          \* requests that failed so far
  pc,              \* client -> where its running command stands ("idle": none running)
  inv,             \* client -> the options of its current (or last) command
  loc,             \* client -> the command's local variables
  exit,            \* client -> how its last command ended
  cmds,            \* commands started so far
  pre,             \* client -> its files and tracker when the current command started
  trace,           \* client -> the effects of the current command, in order
  sub,             \* client -> the submissions the current push made, in order
  args,            \* the inputs of the context resolution under study
  ret              \* what that context resolution returned

vars == <<remote, envFile, backupFile, gitignore, tracker, localOverrides, localContext,
          context, faults, pc, inv, loc, exit, cmds, pre, trace, sub, args, ret>>

(***************************************************************************)
(* The remote store (external collaborator, modelled from the design).     *)
(***************************************************************************)
\* GET /envs/:id/current: version_number 0 and no text when nothing was pushed.
RemoteCurrent(versions) ==
  IF versions = <<>> THEN [version_number |-> 0, plaintext |-> <<>>]
  ELSE [version_number |-> Len(versions), plaintext |-> versions[Len(versions)].plaintext]

\* GET /envs/:id/versions/:n
RemoteVersion(versions, n) ==
  [version_number |-> n, plaintext |-> versions[n].plaintext]

\* POST /envs/:id/versions: accepted when the base is the current version; an
\* absent base is accepted unconditionally and flagged as forced.
RemoteAccepts(versions, body) ==
  body.base_version_number = Undefined \/ body.base_version_number = Some(Len(versions))

RemotePushed(versions, body) ==
  Append(versions, [plaintext |-> body.plaintext,
                    is_forced_push |-> (body.base_version_number = Undefined),
                    base_version_number |-> body.base_version_number])

\* POST /envs/:id/rollback: a new version holding the target's content.
RemoteRolledBack(versions, target) ==
  Append(versions, [plaintext |-> versions[target].plaintext,
                    is_forced_push |-> FALSE,
                    base_version_number |-> Undefined])

(***************************************************************************)
(* Version tracker.                                                        *)
(***************************************************************************)
VersionKey(org, project, environment) == <<org, "/", project, "/", environment>>

\* data[key] || null
getVersionInfo(data, org, project, environment) ==
  LET key == VersionKey(org, project, environment)
  IN IF key \in DOMAIN data THEN <<data[key]>> ELSE <<>>

\* updateVersionInfo starting from an empty tracker instead of the loaded one.
updateVersionInfoFresh(data, org, project, environment, baseVersion) ==
  Put(<<>>, VersionKey(org, project, environment),
      [org |-> org, project |-> project, environment |-> environment,
       base_version |-> baseVersion])

\* updateVersionInfo with a key that leaves the environment out.
updateVersionInfoPerProject(data, org, project, environment, baseVersion) ==
  Put(data, <<org, "/", project>>,
      [org |-> org, project |-> project, environment |-> environment,
       base_version |-> baseVersion])

\* data[key] = {...}; the timestamp last_pulled_at is left out.
updateVersionInfo(data, org, project, environment, baseVersion) ==
  Put(data, VersionKey(org, project, environment),
      [org |-> org, project |-> project, environment |-> environment,
       base_version |-> baseVersion])

(***************************************************************************)
(* Working file and backup chain.                                          *)
(***************************************************************************)
\* readEnvFile: '' when the file does not exist.
readEnvFile(file) == IF file.exists THEN file.content ELSE <<>>

\* new Date().toISOString(): some timestamp.
Timestamp == "<ISO-8601>"
Separator == <<"\n", "\n", "# ===== Backup from ", Timestamp, " =====", "\n", "\n">>

\* createBackup writing the capture over the backup instead of appending it.
createBackupOverwrite(env, backup) ==
  IF ~env.exists THEN backup ELSE File(env.content)

\* createBackup: the backup file it leaves.
createBackup(env, backup) ==
  IF ~env.exists THEN backup
  ELSE IF backup.exists THEN File(backup.content \o Separator \o env.content)
  ELSE File(env.content)

(***************************************************************************)
(* Context resolution.  An absent or empty field is "".                    *)
(***************************************************************************)
\* A context file: absent, unparsable (the YAML parser throws), a scalar
\* document, or a mapping.
ContextFile(state, org, project, environment) ==
  [state |-> state, org |-> org, project |-> project, environment |-> environment]

\* What a load or a resolution gives: a value, null, or a thrown error.
Value(org, project, environment, source) ==
  [kind |-> "value", org |-> org, project |-> project, environment |-> environment,
   source |-> source, error |-> ""]

Null ==
  [kind |-> "null", org |-> "", project |-> "", environment |-> "",
   source |-> "", error |-> ""]

Throws(code) ==
  [kind |-> "error", org |-> "", project |-> "", environment |-> "",
   source |-> "", error |-> code]

\* loadSharedContext treating a file that lacks a field as absent.
loadSharedContextLenient(file) ==
  CASE file.state = "absent" -> Null
    [] file.state = "unparsable" -> Throws("YAML_PARSE_ERROR")
    [] file.state = "scalar" -> Throws("CONFIGURATION_ERROR")
    [] OTHER ->
         IF file.org = "" \/ file.project = "" \/ file.environment = ""
         THEN Null
         ELSE Value(file.org, file.project, file.environment, "")

loadSharedContext(file) ==
  CASE file.state = "absent" -> Null
    [] file.state = "unparsable" -> Throws("YAML_PARSE_ERROR")
    [] file.state = "scalar" -> Throws("CONFIGURATION_ERROR")
    [] OTHER ->
         IF file.org = "" \/ file.project = "" \/ file.environment = ""
         THEN Throws("CONFIGURATION_ERROR")
         ELSE Value(file.org, file.project, file.environment, "")

loadLocalContext(file) ==
  CASE file.state = "absent" -> Null
    [] file.state = "unparsable" -> Throws("YAML_PARSE_ERROR")
    [] file.state = "scalar" -> Null
    [] OTHER -> Value(file.org, file.project, file.environment, "")

\* Or preferring its second operand.
OrLast(a, b) == IF b # "" THEN b ELSE a

\* JavaScript's a || b on optional strings.
Or(a, b) == IF a # "" THEN a ELSE b

\* resolveContext reporting "local" only when a field came from the local file.
resolveContextSourceByField(options, sharedFile, localFile, skipLocal) ==
  LET shared == loadSharedContext(sharedFile)
      local == IF skipLocal THEN Null ELSE loadLocalContext(localFile)
      resolvedOrg == Or(options.org, Or(local.org, shared.org))
      resolvedProject == Or(options.project, Or(local.project, shared.project))
      resolvedEnv == Or(options.environment, Or(local.environment, shared.environment))
      fromLocal == \/ options.org = "" /\ local.org # ""
                   \/ options.project = "" /\ local.project # ""
                   \/ options.environment = "" /\ local.environment # ""
  IN CASE shared.kind = "error" -> shared
       [] shared.kind # "error" /\ local.kind = "error" -> local
       [] OTHER ->
            IF options.org # "" /\ options.project # "" /\ options.environment # ""
            THEN Value(options.org, options.project, options.environment, "flags")
            ELSE IF resolvedOrg # "" /\ resolvedProject # "" /\ resolvedEnv # ""
            THEN Value(resolvedOrg, resolvedProject, resolvedEnv,
                       IF fromLocal THEN "local" ELSE "shared")
            ELSE Null

\* resolveContext returning a context as soon as the organization is known.
resolveContextOrgOnly(options, sharedFile, localFile, skipLocal) ==
  LET shared == loadSharedContext(sharedFile)
      local == IF skipLocal THEN Null ELSE loadLocalContext(localFile)
      resolvedOrg == Or(options.org, Or(local.org, shared.org))
      resolvedProject == Or(options.project, Or(local.project, shared.project))
      resolvedEnv == Or(options.environment, Or(local.environment, shared.environment))
  IN CASE shared.kind = "error" -> shared
       [] shared.kind # "error" /\ local.kind = "error" -> local
       [] OTHER ->
            IF options.org # "" /\ options.project # "" /\ options.environment # ""
            THEN Value(options.org, options.project, options.environment, "flags")
            ELSE IF resolvedOrg # ""
            THEN Value(resolvedOrg, resolvedProject, resolvedEnv,
                       IF local.kind = "value" THEN "local" ELSE "shared")
            ELSE Null

resolveContext(options, sharedFile, localFile, skipLocal) ==
  LET shared == loadSharedContext(sharedFile)
      local == IF skipLocal THEN Null ELSE loadLocalContext(localFile)
      resolvedOrg == Or(options.org, Or(local.org, shared.org))
      resolvedProject == Or(options.project, Or(local.project, shared.project))
      resolvedEnv == Or(options.environment, Or(local.environment, shared.environment))
  IN CASE shared.kind = "error" -> shared
       [] shared.kind # "error" /\ local.kind = "error" -> local
       [] OTHER ->
            IF options.org # "" /\ options.project # "" /\ options.environment # ""
            THEN Value(options.org, options.project, options.environment, "flags")
            ELSE IF resolvedOrg # "" /\ resolvedProject # "" /\ resolvedEnv # ""
            THEN Value(resolvedOrg, resolvedProject, resolvedEnv,
                       IF local.kind = "value" THEN "local" ELSE "shared")
            ELSE Null

\* The flag sets, shared files and local files the resolution is studied on.
FlagSets ==
  [org : {"", "forg"}, project : {"", "fproj"}, environment : {"", "fenv"}]

SharedFiles ==
  { ContextFile("absent", "", "", ""), ContextFile("unparsable", "", "", ""),
    ContextFile("scalar", "", "", ""), ContextFile("object", "sorg", "sproj", "senv"),
    ContextFile("object", "sorg", "sproj", ""), ContextFile("object", "", "sproj", "senv") }

LocalFiles ==
  { ContextFile("absent", "", "", ""), ContextFile("unparsable", "", "", ""),
    ContextFile("scalar", "", "", ""), ContextFile("object", "", "", ""),
    ContextFile("object", "", "lproj", "lenv"), ContextFile("object", "lorg", "lproj", "lenv") }

\* A command line without --org, --project and --environment.
NoFlags == [org |-> "", project |-> "", environment |-> ""]

(***************************************************************************)
(* Push.                                                                   *)
(***************************************************************************)
\* pushVersion testing the base for truthiness, which drops a base of 0.
pushVersionTruthy(plaintext, baseVersionNumber) ==
  [plaintext |-> plaintext,
   base_version_number |-> IF baseVersionNumber = Some(0) THEN Undefined
                           ELSE baseVersionNumber]

\* The request body pushVersion sends.
pushVersion(plaintext, baseVersionNumber) ==
  [plaintext |-> plaintext, base_version_number |-> baseVersionNumber]

\* confirm without the JSON-mode guard.
confirmAlways(json, ans) ==
  IF ans = "cancel" THEN "CANCELLED" ELSE ans

\* confirm(): throws INTERACTIVE_REQUIRED in JSON mode before any prompting,
\* CANCELLED when the user aborts the prompt; else the answer, "yes" or "no".
confirm(json, ans) ==
  CASE json -> "INTERACTIVE_REQUIRED"
    [] ~json /\ ans = "cancel" -> "CANCELLED"
    [] OTHER -> ans

\* What a call of confirm() leaves in the trace: the prompt and the answer,
\* when the user was prompted at all.
Prompted(json, prompt, ans) ==
  IF confirm(json, ans) = "INTERACTIVE_REQUIRED" THEN <<>> ELSE <<prompt, ans>>

\* The codes confirm() throws.
Thrown == {"INTERACTIVE_REQUIRED", "CANCELLED"}

\* FindEnvironment falling back to the first environment of the listing.
FindEnvironmentOrFirst(environments, name) ==
  IF name \in environments THEN <<name>>
  ELSE <<CHOOSE e \in environments : TRUE>>

\* environments.find(e => e.name === context.environment): the environment
\* the remote listings hold under that name, if any.
FindEnvironment(environments, name) ==
  IF name \in environments THEN <<name>> ELSE <<>>

\* AsksOverrides looking the working file's keys up among the override values.
AsksOverridesByValue(localEnv, overrides, force, token) ==
  ((DOMAIN localEnv) \cap {overrides[k] : k \in DOMAIN overrides}) # {} /\ ~force /\ ~token

\* Whether push asks about override keys found in the working file.
AsksOverrides(localEnv, overrides, force, token) ==
  ((DOMAIN localEnv) \cap (DOMAIN overrides)) # {} /\ ~force /\ ~token

\* A command's local variables: the parsed payload, baseVersionNumber, the
\* plaintext sent or fetched, the version number the remote returned (push,
\* rollback), the fetched snapshot's version number, the content computed for
\* the working file; and, of the best-effort read, how it went and the version
\* the remote was at; envId is the environment the listings gave.
NoLocals ==
  [localEnv |-> EmptyEnv, base |-> Undefined, plaintext |-> <<>>,
   version |-> 0, snapshot |-> 0, content |-> <<>>, read |-> "none", readAt |-> 0,
   envId |-> ""]

Snapshot(c) ==
  [envFile |-> envFile[c], backupFile |-> backupFile[c],
   gitignore |-> gitignore[c], tracker |-> tracker[c]]

Ended(code, result, error) == [code |-> code, result |-> result, error |-> error]

\* The bookkeeping every command start shares.
Begin(c, options) ==
  /\ inv' = [inv EXCEPT ![c] = options]
  /\ cmds' = cmds + 1
  /\ pre' = [pre EXCEPT ![c] = Snapshot(c)]

\* A request may fail while the run's budget of failures lasts.
NetChoices == IF faults < MaxFaults THEN Net ELSE {"ok"}
Faulted(net) == faults' = IF net = "fail" THEN faults + 1 ELSE faults

\* The value of context in a directory whose .envsimple was unlinked.
NoSharedFile == "<absent>"

\* The shared context file of the working directories.
SharedFile ==
  IF context = NoSharedFile THEN ContextFile("absent", "", "", "")
  ELSE ContextFile("object", Org, Project, context)

\* Resolved reading the local file in token mode too.
ResolvedWithLocal(c, mode) == resolveContext(NoFlags, SharedFile, localContext[c], FALSE)

\* The context a command resolves: no flags, and the local file skipped in
\* token mode.
Resolved(c, mode) == resolveContext(NoFlags, SharedFile, localContext[c], mode = "token")

\* The options a mode stands for, with the resolved environment.
Options(c, cmd, mode, arg) ==
  [cmd |-> cmd, environment |-> Resolved(c, mode).environment, force |-> mode = "force",
   token |-> mode = "token", json |-> mode = "json", arg |-> arg]

\* The command ends: process exit code, outcome and error code.
Finish(c, code, result, error) ==
  /\ pc' = [pc EXCEPT ![c] = "idle"]
  /\ exit' = [exit EXCEPT ![c] = Ended(code, result, error)]

\* PushBaseStep with token mode consulting the tracker like a plain push.
PushBaseStepTokenTracked(force, token, versionInfo) ==
  IF force THEN [next |-> "push_submit", base |-> Undefined]
  ELSE IF versionInfo # <<>>
       THEN [next |-> "push_submit", base |-> Some(versionInfo[1].base_version)]
       ELSE [next |-> "push_readbase", base |-> Undefined]

\* The base version a push settles on before any remote read: none in force or
\* token mode, else the tracker's entry; "read" when the remote must be asked.
PushBaseStep(force, token, versionInfo) ==
  IF force \/ token THEN [next |-> "push_submit", base |-> Undefined]
  ELSE IF versionInfo # <<>>
       THEN [next |-> "push_submit", base |-> Some(versionInfo[1].base_version)]
       ELSE [next |-> "push_readbase", base |-> Undefined]

\* What one submission was and how the remote answered it.
\* base: the baseVersionNumber the command held; sent: the base in the request;
\* at: the version the remote was at; version: the number of the version created.
Submission(base, body, at, verdict) ==
  [base |-> base, sent |-> body.base_version_number, plaintext |-> body.plaintext,
   at |-> at, verdict |-> verdict, version |-> IF verdict = "accepted" THEN at + 1 ELSE 0]

\* RecordPushed recording whatever the remote answered.
RecordPushedAlways(data, verdict, environment, version) ==
  updateVersionInfo(data, Org, Project, environment, version)

\* The tracker after a submission: the new version is recorded once accepted.
RecordPushed(data, verdict, environment, version) ==
  IF verdict = "accepted" THEN updateVersionInfo(data, Org, Project, environment, version)
  ELSE data

\* PushWorkingFile writing the payload, stripped keys left out, back to .env.
PushWorkingFileRewritten(env, localEnv) ==
  IF env.exists THEN File(formatEnvContent(localEnv)) ELSE env

\* The working file as push leaves it: the command reads .env and the payload
\* parsed from it (localEnv, override keys stripped or not) is only sent.
PushWorkingFile(env, localEnv) == env

\* The backup push takes before it submits (none in token mode).
PushBackup(env, backup, token) == IF token THEN backup ELSE createBackup(env, backup)

\* The end of pushCommand's main path: backup, format, submit; on success
\* record the new version as base, on CONFLICT go on to the forced-push offer.
\* An error the remote answers with is noted in the trace by its code.
SubmitPush(c, o, locals, net, events) ==
  LET e == locals.envId
      plaintext == formatEnvContent(locals.localEnv)
      body == pushVersion(plaintext, locals.base)
      at == Len(remote[e])
      verdict == IF net = "fail" THEN "failed"
                 ELSE IF RemoteAccepts(remote[e], body) THEN "accepted"
                 ELSE "conflict"
      backedUp == PushBackup(envFile[c], backupFile[c], o.token)
  IN /\ backupFile' = [backupFile EXCEPT ![c] = backedUp]
     /\ loc' = [loc EXCEPT ![c] =
                  [locals EXCEPT !.plaintext = plaintext,
                                 !.version = IF verdict = "accepted" THEN at + 1 ELSE 0]]
     /\ sub' = [sub EXCEPT ![c] = <<Submission(locals.base, body, at, verdict)>>]
     /\ tracker' = [tracker EXCEPT ![c] = RecordPushed(@, verdict, o.environment, at + 1)]
     /\ trace' = [trace EXCEPT ![c] =
                    events \o (IF backedUp # backupFile[c] THEN <<"backup">> ELSE <<>>)
                           \o <<"submit">>
                           \o (CASE verdict = "accepted" -> <<"record">>
                                 [] verdict = "conflict" -> <<"CONFLICT">>
                                 [] OTHER -> <<"NETWORK_ERROR">>)]
     /\ CASE verdict = "accepted" ->
               /\ remote' = [remote EXCEPT ![e] = RemotePushed(@, body)]
               /\ Finish(c, 0, "success", "")
          [] verdict = "conflict" /\ ~o.force /\ ~o.token ->
               /\ pc' = [pc EXCEPT ![c] = "push_conflict"]
               /\ exit' = [exit EXCEPT ![c] = Ended(0, "running", "")]
               /\ UNCHANGED remote
          [] verdict = "conflict" /\ (o.force \/ o.token) ->
               /\ Finish(c, 1, "error", "CONFLICT")
               /\ UNCHANGED remote
          [] OTHER ->
               /\ Finish(c, 1, "error", "NETWORK_ERROR")
               /\ UNCHANGED remote

\* pushCommand from its start to its first remote call: read and parse the
\* working file, ask about override keys, look the environment up, settle the
\* base (tracker, or a best-effort read of the remote), and, when no read was
\* needed, submit.
Push(c) ==
  /\ pc[c] = "idle"
  /\ cmds < MaxCmds
  /\ \E mode \in ModesOf(c), pre_ \in NetChoices :
       LET o == Options(c, "push", mode, 0)
           ctx == Resolved(c, mode)
           ready == pre_ = "ok" /\ ctx.kind = "value"
           envContent == readEnvFile(envFile[c])
           parsed == parseEnvContent(envContent)
           asks == /\ ready
                   /\ Trim(envContent) # <<>>
                   /\ AsksOverrides(parsed, localOverrides[c], o.force, o.token)
       IN \E ans \in (IF asks THEN Answers ELSE {"yes"}) :
            LET includeOverrides == IF asks THEN confirm(o.json, ans) ELSE "yes"
                localEnv == IF includeOverrides = "no"
                            THEN DeleteKeys(parsed, DOMAIN localOverrides[c])
                            ELSE parsed
                envData == FindEnvironment(DOMAIN remote, o.environment)
                failure == CASE pre_ = "fail" -> IF o.token THEN "PUSH_ERROR"
                                                  ELSE "AUTHENTICATION_REQUIRED"
                             [] pre_ = "ok" /\ ctx.kind = "error" -> ctx.error
                             [] pre_ = "ok" /\ ctx.kind = "null" -> "PUSH_ERROR"
                             [] ready /\ Trim(envContent) = <<>> -> "PUSH_ERROR"
                             [] asks /\ includeOverrides \in Thrown -> includeOverrides
                             [] ready /\ envData = <<>> -> "PUSH_ERROR"
                             [] OTHER -> ""
                step == PushBaseStep(o.force, o.token,
                                     getVersionInfo(tracker[c], Org, Project, o.environment))
                events == (IF asks THEN Prompted(o.json, "prompt_override", ans) ELSE <<>>)
                          \o (IF failure # "" THEN <<failure>>
                              ELSE IF ~(o.force \/ o.token) THEN <<"tracker_get">>
                              ELSE <<>>)
                locals == [NoLocals EXCEPT !.localEnv = localEnv, !.base = step.base,
                                           !.envId = IF envData = <<>> THEN "" ELSE envData[1]]
            IN \E net \in (IF failure = "" THEN NetChoices ELSE {"ok"}) :
                 /\ Begin(c, o)
                 /\ envFile' = [envFile EXCEPT ![c] = PushWorkingFile(@, localEnv)]
                 /\ Faulted(IF pre_ = "fail" THEN pre_ ELSE net)
                 /\ IF failure # ""
                    THEN /\ Finish(c, 1, "error", failure)
                         /\ loc' = [loc EXCEPT ![c] = NoLocals]
                         /\ trace' = [trace EXCEPT ![c] = events]
                         /\ sub' = [sub EXCEPT ![c] = <<>>]
                         /\ UNCHANGED <<remote, backupFile, tracker>>
                    ELSE IF step.next = "push_readbase"
                    THEN /\ loc' = [loc EXCEPT ![c] =
                                      [locals EXCEPT
                                         !.base = IF net = "ok"
                                                  THEN Some(RemoteCurrent(remote[locals.envId]).version_number)
                                                  ELSE Undefined,
                                         !.read = net,
                                         !.readAt = Len(remote[locals.envId])]]
                         /\ trace' = [trace EXCEPT ![c] =
                                        events \o <<"remote_read">>
                                               \o (IF net = "fail" THEN <<"READ_FAILED">> ELSE <<>>)]
                         /\ sub' = [sub EXCEPT ![c] = <<>>]
                         /\ pc' = [pc EXCEPT ![c] = "push_submit"]
                         /\ exit' = [exit EXCEPT ![c] = Ended(0, "running", "")]
                         /\ UNCHANGED <<remote, backupFile, tracker>>
                    ELSE SubmitPush(c, o, locals, net, events)
  /\ UNCHANGED <<gitignore, localOverrides, localContext, context, args, ret>>

\* The submission that follows the best-effort read of the remote version.
PushSubmit(c) ==
  /\ pc[c] = "push_submit"
  /\ \E net \in NetChoices :
       /\ Faulted(net)
       /\ SubmitPush(c, inv[c], loc[c], net, trace[c])
  /\ UNCHANGED <<envFile, gitignore, localOverrides, localContext, context, inv, cmds, pre, args, ret>>

\* ForcePushDecision with the answer inverted: "no" resubmits, "yes" gives up.
ForcePushDecisionInverted(json, ans) ==
  LET forcePush == confirm(json, ans)
  IN CASE forcePush \in Thrown -> forcePush
       [] forcePush = "yes" -> "CONFLICT"
       [] OTHER -> "retry"

\* What follows a CONFLICT in a push that is neither forced nor in token
\* mode: confirm() throws in JSON mode or on Ctrl+C, "no" ends in the
\* ConflictError, "yes" resubmits.
ForcePushDecision(json, ans) ==
  LET forcePush == confirm(json, ans)
  IN CASE forcePush \in Thrown -> forcePush
       [] forcePush = "no" -> "CONFLICT"
       [] OTHER -> "retry"

\* RetryBody resubmitting with the base the first submission carried.
RetryBodyKeepsBase(plaintext, baseVersionNumber) ==
  [plaintext |-> plaintext, base_version_number |-> baseVersionNumber]

\* The request of the forced resubmission: the same plaintext, no base.
RetryBody(plaintext, baseVersionNumber) == pushVersion(plaintext, Undefined)

\* After a CONFLICT: the offer of a forced push, and the forced resubmission.
PushConflict(c) ==
  /\ pc[c] = "push_conflict"
  /\ \E ans \in Answers :
     \E net \in (IF ForcePushDecision(inv[c].json, ans) = "retry"
                 THEN NetChoices ELSE {"ok"}) :
       LET o == inv[c]
           e == loc[c].envId
           decision == ForcePushDecision(o.json, ans)
           body == RetryBody(loc[c].plaintext, loc[c].base)
           at == Len(remote[e])
           verdict == IF decision # "retry" THEN "none"
                      ELSE IF net = "fail" THEN "failed"
                      ELSE IF RemoteAccepts(remote[e], body) THEN "accepted"
                      ELSE "conflict"
       IN /\ Faulted(IF decision = "retry" THEN net ELSE "ok")
          /\ trace' = [trace EXCEPT ![c] =
                         @ \o Prompted(o.json, "prompt_force", ans)
                           \o (CASE decision # "retry" -> <<decision>>
                                 [] verdict = "accepted" -> <<"submit", "record">>
                                 [] verdict = "conflict" -> <<"submit", "CONFLICT">>
                                 [] OTHER -> <<"submit", "NETWORK_ERROR">>)]
          /\ sub' = [sub EXCEPT ![c] =
                       IF decision = "retry"
                       THEN Append(@, Submission(Undefined, body, at, verdict)) ELSE @]
          /\ tracker' = [tracker EXCEPT ![c] =
                           RecordPushed(@, verdict, o.environment, at + 1)]
          /\ loc' = [loc EXCEPT ![c].version = IF verdict = "accepted" THEN at + 1 ELSE @]
          /\ remote' = [remote EXCEPT ![e] =
                          IF verdict = "accepted" THEN RemotePushed(@, body) ELSE @]
          /\ CASE decision # "retry" -> Finish(c, 1, "error", decision)
               [] verdict = "accepted" -> Finish(c, 0, "success", "")
               [] verdict = "conflict" -> Finish(c, 1, "error", "CONFLICT")
               [] OTHER -> Finish(c, 1, "error", "NETWORK_ERROR")
  /\ UNCHANGED <<envFile, backupFile, gitignore, localOverrides, localContext, context, inv, cmds, pre, args, ret>>

(***************************************************************************)
(* Pull.                                                                   *)
(***************************************************************************)
\* PullBackup comparing the raw contents, line endings included.
PullBackupRaw(env, backup, envContent, token) ==
  IF env.exists /\ ~token
  THEN IF env.content # envContent /\ Trim(env.content) # <<>>
       THEN IF backup.exists
            THEN File(backup.content \o Separator \o env.content)
            ELSE File(env.content)
       ELSE backup
  ELSE backup

\* PullBackup copying over the backup file instead of appending to it.
PullBackupOverwrites(env, backup, envContent, token) ==
  IF env.exists /\ ~token
  THEN IF Normalized(env.content) # Normalized(envContent) /\ Normalized(env.content) # <<>>
       THEN File(env.content)
       ELSE backup
  ELSE backup

\* The backup pull takes inline: only when .env exists, not in token mode, and
\* the current content differs from the new one after normalisation.
PullBackup(env, backup, envContent, token) ==
  IF env.exists /\ ~token
  THEN LET currentContent == readEnvFile(env)
           normalizedCurrent == Normalized(currentContent)
           normalizedNew == Normalized(envContent)
       IN IF normalizedCurrent # normalizedNew /\ normalizedCurrent # <<>>
          THEN IF backup.exists
               THEN File(backup.content \o Separator \o currentContent)
               ELSE File(env.content)
          ELSE backup
  ELSE backup

\* The entries ensureGitignore requires, in its order.
\* (A run of characters without white space is written as one element.)
RequiredEntries == << <<".env">>, <<".env.copy">>, <<".envsimple.local">> >>

GitignoreHeader == <<"#", " ", "EnvSimple">>

\* EnsureEntries appending every required entry, present already or not.
EnsureEntriesAlways(entries, existingEntries, newLines, modified) ==
  [lines |-> newLines \o <<GitignoreHeader>> \o entries, modified |-> TRUE]

\* The loop of ensureGitignore over the required entries still to visit.
RECURSIVE EnsureEntries(_, _, _, _)
EnsureEntries(entries, existingEntries, newLines, modified) ==
  IF entries = <<>> THEN [lines |-> newLines, modified |-> modified]
  ELSE IF Head(entries) \in existingEntries
       THEN EnsureEntries(Tail(entries), existingEntries, newLines, modified)
       ELSE LET spaced == IF Len(newLines) > 0 /\ newLines[Len(newLines)] # <<>>
                          THEN Append(newLines, <<>>) ELSE newLines
                headed == IF ~modified THEN Append(spaced, GitignoreHeader) ELSE spaced
            IN EnsureEntries(Tail(entries), existingEntries,
                             Append(headed, Head(entries)), TRUE)

\* ensureGitignore: the .gitignore it leaves.
ensureGitignore(file) ==
  LET content == IF file.exists THEN file.content ELSE <<>>
      lines == SplitLines(content)
      existingEntries == {Trim(lines[i]) : i \in {j \in 1..Len(lines) :
                            Trim(lines[j]) # <<>> /\ Head(Trim(lines[j])) # "#"}}
      r == EnsureEntries(RequiredEntries, existingEntries, lines, FALSE)
  IN IF r.modified THEN File(JoinLines(r.lines) \o <<"\n">>) ELSE file

\* Versions pull may ask for with --version (0: the flag is absent).
PullVersions == {0, 1}

\* AsksOverwrite asking only about an environment without versions.
AsksOverwriteVersionOnly(snapshot, baseEnv, json, token) ==
  snapshot.version_number = 0 /\ ~json /\ ~token

\* Whether pull asks before overwriting.
AsksOverwrite(snapshot, baseEnv, json, token) ==
  (snapshot.version_number = 0 \/ DOMAIN baseEnv = {}) /\ ~json /\ ~token

\* pullCommand: look the environment up, fetch, confirm, merge,
\* backup-if-different, write, ignore entries, record the base.
\* A pull without a resolved context: refused in JSON and in token mode;
\* otherwise the user is asked to select one (the selection is taken as
\* abandoned here).
Unresolved(o) ==
  IF o.json THEN "CONTEXT_REQUIRED" ELSE IF o.token THEN "PULL_ERROR" ELSE "CANCELLED"

Pull(c) ==
  /\ pc[c] = "idle"
  /\ cmds < MaxCmds
  /\ \E mode \in ModesOf(c) \ {"force"}, pre_ \in NetChoices :
       LET ctx == Resolved(c, mode)
           envData == FindEnvironment(DOMAIN remote, ctx.environment)
           reached == pre_ = "ok" /\ ctx.kind = "value" /\ envData # <<>>
       IN \E version \in (IF mode = "plain" /\ reached THEN PullVersions ELSE {0}),
             net \in (IF reached THEN NetChoices ELSE {"ok"}) :
            LET o == Options(c, "pull", mode, version)
                e == envData[1]
                found == version = 0 \/ version \in 1..Len(remote[e])
                fetched == reached /\ net = "ok" /\ found
                snapshot == IF ~fetched THEN [version_number |-> 0, plaintext |-> <<>>]
                            ELSE IF version # 0 THEN RemoteVersion(remote[e], version)
                            ELSE RemoteCurrent(remote[e])
                baseEnv == parseEnvContent(snapshot.plaintext)
                asks == fetched /\ AsksOverwrite(snapshot, baseEnv, o.json, o.token)
            IN \E ans \in (IF asks THEN Answers ELSE {"yes"}) :
                 LET shouldContinue == IF asks THEN confirm(o.json, ans) ELSE "yes"
                     finalEnv == IF o.token THEN baseEnv
                                 ELSE applyOverrides(baseEnv, localOverrides[c])
                     envContent == formatEnvContent(finalEnv)
                     backedUp == PullBackup(envFile[c], backupFile[c], envContent, o.token)
                     failure == CASE pre_ = "fail" -> IF o.token THEN "PULL_ERROR"
                                                       ELSE "AUTHENTICATION_REQUIRED"
                                  [] pre_ = "ok" /\ ctx.kind = "error" -> ctx.error
                                  [] pre_ = "ok" /\ ctx.kind = "null" -> Unresolved(o)
                                  [] pre_ = "ok" /\ ctx.kind = "value" /\ envData = <<>>
                                       -> "PULL_ERROR"
                                  [] reached /\ net = "fail" -> "NETWORK_ERROR"
                                  [] reached /\ net = "ok" /\ ~found -> "NOT_FOUND"
                                  [] fetched /\ shouldContinue \in Thrown -> shouldContinue
                                  [] OTHER -> ""
                     declined == failure = "" /\ shouldContinue = "no"
                     events == (IF fetched THEN <<"fetch">> ELSE <<>>)
                               \o (IF asks THEN Prompted(o.json, "prompt_overwrite", ans)
                                   ELSE <<>>)
                               \o (IF failure # "" THEN <<failure>>
                                   ELSE IF declined THEN <<>>
                                   ELSE (IF backedUp # backupFile[c] THEN <<"backup">>
                                         ELSE <<>>) \o <<"write", "record">>)
                     locals == [NoLocals EXCEPT !.snapshot = snapshot.version_number,
                                                !.plaintext = snapshot.plaintext,
                                                !.content = envContent,
                                                !.envId = IF envData = <<>> THEN "" ELSE e]
                 IN /\ Begin(c, o)
                    /\ trace' = [trace EXCEPT ![c] = events]
                    /\ sub' = [sub EXCEPT ![c] = <<>>]
                    /\ Faulted(IF pre_ = "fail" THEN pre_ ELSE net)
                    /\ IF failure # ""
                       THEN /\ Finish(c, 1, "error", failure)
                            /\ loc' = [loc EXCEPT ![c] = NoLocals]
                            /\ UNCHANGED <<envFile, backupFile, gitignore, tracker>>
                       ELSE IF declined
                       THEN /\ Finish(c, 0, "declined", "")
                            /\ loc' = [loc EXCEPT ![c] = [locals EXCEPT !.content = <<>>]]
                            /\ UNCHANGED <<envFile, backupFile, gitignore, tracker>>
                       ELSE /\ backupFile' = [backupFile EXCEPT ![c] = backedUp]
                            /\ envFile' = [envFile EXCEPT ![c] = File(envContent)]
                            /\ gitignore' = [gitignore EXCEPT ![c] = ensureGitignore(@)]
                            /\ tracker' = [tracker EXCEPT ![c] =
                                             updateVersionInfo(@, Org, Project, o.environment,
                                                               snapshot.version_number)]
                            /\ loc' = [loc EXCEPT ![c] = locals]
                            /\ Finish(c, 0, "success", "")
  /\ UNCHANGED <<remote, localOverrides, localContext, context, args, ret>>

(***************************************************************************)
(* Rollback.                                                               *)
(***************************************************************************)
\* Targets rollback may be given (0: the flag is absent).
Targets == {0, 1}

\* The backup rollback takes inline once the remote rollback has returned.
RollbackBackup(env, backup) ==
  IF env.exists
  THEN IF backup.exists
       THEN File(backup.content \o Separator \o env.content)
       ELSE File(env.content)
  ELSE backup

\* BackupAfterRollback with the backup taken before the remote call.
BackupBeforeRollback(failure, env, backup) ==
  IF env.exists
  THEN IF backup.exists
       THEN File(backup.content \o Separator \o env.content)
       ELSE File(env.content)
  ELSE backup

\* The backup file after the first part of rollbackCommand: the backup is
\* taken only once the remote rollback has returned.
BackupAfterRollback(failure, env, backup) ==
  IF failure # "" THEN backup ELSE RollbackBackup(env, backup)

\* rollbackCommand up to the backup: the remote rollback, then the backup.
RollbackStart(c) ==
  /\ pc[c] = "idle"
  /\ cmds < MaxCmds
  /\ c = "c1"
  /\ \E mode \in {"plain"}, target \in Targets, pre_ \in NetChoices :
       LET o == Options(c, "rollback", mode, target)
           ctx == Resolved(c, mode)
           envData == FindEnvironment(DOMAIN remote, o.environment)
           reached == pre_ = "ok" /\ target # 0 /\ ctx.kind = "value" /\ envData # <<>>
       IN \E net \in (IF reached THEN NetChoices ELSE {"ok"}) :
            LET e == envData[1]
                found == target \in 1..Len(remote[e])
                failure == CASE pre_ = "fail" -> "AUTHENTICATION_REQUIRED"
                             [] pre_ = "ok" /\ target = 0 -> "ROLLBACK_ERROR"
                             [] pre_ = "ok" /\ target # 0 /\ ctx.kind = "error" -> ctx.error
                             [] pre_ = "ok" /\ target # 0 /\ ctx.kind = "null" -> "ROLLBACK_ERROR"
                             [] pre_ = "ok" /\ target # 0 /\ ctx.kind = "value" /\ envData = <<>>
                                  -> "ROLLBACK_ERROR"
                             [] reached /\ net = "fail" -> "NETWORK_ERROR"
                             [] reached /\ net = "ok" /\ ~found -> "NOT_FOUND"
                             [] OTHER -> ""
                backedUp == BackupAfterRollback(failure, envFile[c], backupFile[c])
                events == IF failure # "" THEN <<failure>>
                          ELSE <<"rollback">> \o (IF backedUp # backupFile[c]
                                                  THEN <<"backup">> ELSE <<>>)
            IN /\ Begin(c, o)
               /\ trace' = [trace EXCEPT ![c] = events]
               /\ sub' = [sub EXCEPT ![c] = <<>>]
               /\ Faulted(IF pre_ = "fail" THEN pre_ ELSE net)
               /\ backupFile' = [backupFile EXCEPT ![c] = backedUp]
               /\ IF failure # ""
                  THEN /\ Finish(c, 1, "error", failure)
                       /\ loc' = [loc EXCEPT ![c] = NoLocals]
                       /\ UNCHANGED remote
                  ELSE /\ remote' = [remote EXCEPT ![e] = RemoteRolledBack(@, target)]
                       /\ loc' = [loc EXCEPT ![c] = [NoLocals EXCEPT
                                                       !.readAt = Len(remote[e]),
                                                       !.version = Len(remote[e]) + 1,
                                                       !.envId = e]]
                       /\ pc' = [pc EXCEPT ![c] = "rollback_fetch"]
                       /\ exit' = [exit EXCEPT ![c] = Ended(0, "running", "")]
  /\ UNCHANGED <<envFile, gitignore, tracker, localOverrides, localContext, context, args, ret>>

\* The rest of rollbackCommand: fetch the current snapshot, merge the
\* overrides, write the working file, record the base.
RollbackFetch(c) ==
  /\ pc[c] = "rollback_fetch"
  /\ \E net \in NetChoices :
       LET e == loc[c].envId
           snapshot == RemoteCurrent(remote[e])
           baseEnv == parseEnvContent(snapshot.plaintext)
           finalEnv == applyOverrides(baseEnv, localOverrides[c])
           envContent == formatEnvContent(finalEnv)
       IN /\ Faulted(net)
          /\ IF net = "fail"
             THEN /\ Finish(c, 1, "error", "NETWORK_ERROR")
                  /\ trace' = [trace EXCEPT ![c] = Append(@, "NETWORK_ERROR")]
                  /\ UNCHANGED <<envFile, tracker, loc>>
             ELSE /\ envFile' = [envFile EXCEPT ![c] = File(envContent)]
                  /\ tracker' = [tracker EXCEPT ![c] =
                                   updateVersionInfo(@, Org, Project, inv[c].environment,
                                                     snapshot.version_number)]
                  /\ loc' = [loc EXCEPT ![c].plaintext = snapshot.plaintext,
                                        ![c].content = envContent,
                                        ![c].snapshot = snapshot.version_number]
                  /\ trace' = [trace EXCEPT ![c] = @ \o <<"fetch", "write", "record">>]
                  /\ Finish(c, 0, "success", "")
  /\ UNCHANGED <<remote, backupFile, gitignore, localOverrides, localContext, context, inv, cmds, pre, sub, args, ret>>

(***************************************************************************)
(* Status.                                                                 *)
(***************************************************************************)
\* How status ends: without credentials it fails; a failed user lookup is
\* reported as "user info unavailable" and the command returns normally; a
\* malformed shared context file or a failed organization lookup reaches the
\* command's error handler.
StatusOutcome(auth, user, ctx, org) ==
  CASE auth = "fail" ->
         [exit |-> Ended(1, "error", "AUTHENTICATION_REQUIRED"),
          events |-> <<"AUTHENTICATION_REQUIRED">>]
    [] auth = "ok" /\ user = "fail" ->
         [exit |-> Ended(0, "success", ""), events |-> <<"USER_INFO_FAILED">>]
    [] auth = "ok" /\ user = "ok" /\ ctx.kind = "error" ->
         [exit |-> Ended(1, "error", ctx.error), events |-> <<ctx.error>>]
    [] auth = "ok" /\ user = "ok" /\ ctx.kind # "error" /\ org = "fail" ->
         [exit |-> Ended(1, "error", "NETWORK_ERROR"), events |-> <<"NETWORK_ERROR">>]
    [] OTHER ->
         [exit |-> Ended(0, "success", ""), events |-> <<>>]

Status(c) ==
  /\ pc[c] = "idle"
  /\ cmds < MaxCmds
  /\ c = "c1"
  /\ \E auth \in NetChoices :
       \E user \in (IF auth = "ok" THEN NetChoices ELSE {"ok"}) :
         \E org \in (IF auth = "ok" /\ user = "ok" /\ Resolved(c, "plain").kind = "value"
                      THEN NetChoices ELSE {"ok"}) :
           LET outcome == StatusOutcome(auth, user, Resolved(c, "plain"), org)
           IN /\ Begin(c, Options(c, "status", "plain", 0))
              /\ Faulted(IF "fail" \in {auth, user, org} THEN "fail" ELSE "ok")
              /\ trace' = [trace EXCEPT ![c] = outcome.events]
              /\ sub' = [sub EXCEPT ![c] = <<>>]
              /\ loc' = [loc EXCEPT ![c] = NoLocals]
              /\ Finish(c, outcome.exit.code, outcome.exit.result, outcome.exit.error)
  /\ UNCHANGED <<remote, envFile, backupFile, gitignore, tracker, localOverrides, localContext,
                 context, args, ret>>

(***************************************************************************)
(* Context resolution studied on its own.                                  *)
(***************************************************************************)
\* No resolution under study, and no result yet.
NoArgs ==
  [options |-> [org |-> "", project |-> "", environment |-> ""],
   shared |-> ContextFile("absent", "", "", ""),
   local |-> ContextFile("absent", "", "", ""), skipLocal |-> FALSE]

NotCalled ==
  [kind |-> "none", org |-> "", project |-> "", environment |-> "",
   source |-> "", error |-> ""]

\* One call of resolveContext on the chosen inputs.
Resolve ==
  /\ ret = NotCalled
  /\ ret' = resolveContext(args.options, args.shared, args.local, args.skipLocal)
  /\ UNCHANGED <<remote, envFile, backupFile, gitignore, tracker, localOverrides, localContext,
                 context, faults, pc, inv, loc, exit, cmds, pre, trace, sub, args>>

(***************************************************************************)
(* The system.                                                             *)
(***************************************************************************)
\* dev holds two versions pushed earlier, the first without keys; prod holds
\* none yet.
InitRemote ==
  [e \in Environments |->
     IF e = "dev"
     THEN << [plaintext |-> TextNone, is_forced_push |-> FALSE, base_version_number |-> Some(0)],
             [plaintext |-> TextA2, is_forced_push |-> FALSE, base_version_number |-> Some(1)] >>
     ELSE <<>>]

\* A tracker that recorded the current version of both environments.
SyncedTracker ==
  updateVersionInfo(updateVersionInfo(<<>>, Org, Project, "dev", 2), Org, Project, "prod", 0)

\* A working directory without .envsimple.local.
NoLocalFile == ContextFile("absent", "", "", "")

\* The .gitignore files a working directory may hold: one of the required
\* entries and another line; a padded entry on a last line without newline;
\* all three entries; an entry that is commented out.
IgnorePartial == <<"node_modules", "\n", ".env", "\n">>
IgnorePadded == <<"dist", "\n", " ", ".env.copy", " ">>
IgnoreFull == <<".env", "\n", ".env.copy", "\r", "\n", ".envsimple.local", "\n">>
IgnoreCommented == <<"#", ".env", "\n">>

\* The working directories c1 may start from: a fresh checkout, a synced one
\* with CRLF line endings and an override, one with a hand-written .env that
\* was never synced, a synced one whose .env was emptied, one whose
\* .envsimple.local names the environment prod.
Profiles ==
  { [envFile |-> NoFile, tracker |-> <<>>, overrides |-> EmptyEnv, local |-> NoLocalFile,
     gitignore |-> NoFile],
    [envFile |-> File(TextA2B3crlf), tracker |-> SyncedTracker, overrides |-> OverrideB,
     local |-> ContextFile("object", "", "", ""), gitignore |-> File(IgnoreFull)],
    [envFile |-> File(TextA3), tracker |-> <<>>, overrides |-> EmptyEnv, local |-> NoLocalFile,
     gitignore |-> File(IgnorePartial)],
    [envFile |-> File(TextBlank), tracker |-> SyncedTracker, overrides |-> EmptyEnv,
     local |-> NoLocalFile, gitignore |-> File(IgnorePadded)],
    [envFile |-> File(TextA2), tracker |-> <<>>, overrides |-> EmptyEnv,
     local |-> ContextFile("object", "", "", "prod"), gitignore |-> File(IgnoreCommented)] }

WorkspacesOf(profiles) ==
  /\ remote = InitRemote
  /\ context \in Contexts \cup {""}
  /\ \E p \in profiles :
       /\ envFile = [c \in Clients |-> IF c = "c1" THEN p.envFile ELSE File(TextA3)]
       /\ tracker = [c \in Clients |-> IF c = "c1" THEN p.tracker ELSE SyncedTracker]
       /\ localOverrides = [c \in Clients |-> IF c = "c1" THEN p.overrides ELSE EmptyEnv]
       /\ localContext = [c \in Clients |-> IF c = "c1" THEN p.local ELSE NoLocalFile]
       /\ gitignore = [c \in Clients |-> IF c = "c1" THEN p.gitignore ELSE NoFile]
  /\ backupFile = [c \in Clients |-> NoFile]
  /\ faults = 0
  /\ pc = [c \in Clients |-> "idle"]
  /\ inv = [c \in Clients |-> Options(c, "none", "plain", 0)]
  /\ loc = [c \in Clients |-> NoLocals]
  /\ exit = [c \in Clients |-> Ended(0, "none", "")]
  /\ cmds = 0
  /\ pre = [c \in Clients |-> [envFile |-> envFile[c], backupFile |-> backupFile[c],
                               gitignore |-> gitignore[c], tracker |-> tracker[c]]]
  /\ trace = [c \in Clients |-> <<>>]
  /\ sub = [c \in Clients |-> <<>>]

Workspaces == WorkspacesOf(Profiles)

Init ==
  /\ Workspaces
  /\ args = NoArgs
  /\ ret = NotCalled

Next ==
  \E c \in Clients :
    \/ Push(c)
    \/ PushSubmit(c)
    \/ PushConflict(c)
    \/ Pull(c)
    \/ RollbackStart(c)
    \/ RollbackFetch(c)
    \/ Status(c)

Spec == Init /\ [][Next]_vars

\* Context resolution on its own: every combination of flags, shared file,
\* local file and skipLocal, in one fresh working directory.
CtxInit ==
  /\ Workspaces
  /\ context = "dev"
  /\ envFile["c1"] = NoFile
  /\ args \in [options : FlagSets, shared : SharedFiles, local : LocalFiles,
               skipLocal : BOOLEAN]
  /\ ret = NotCalled

CtxNext == Resolve

CtxSpec == CtxInit /\ [][CtxNext]_vars


(***************************************************************************)
(* The merge and the codec studied on their own.                           *)
(***************************************************************************)
\* The mappings with keys among keys and values among values.
Mappings(keys, values) == UNION {[ks -> values] : ks \in SUBSET keys}

\* Keys and values of the mappings merged and formatted: keys in both cases
\* of a letter; an empty value, one with a space, one wrapped in quotes.
MergeKeys == {<<"A">>, <<"B">>}
MergeValues == {<<"1">>, <<"2">>}
CodecKeys == {<<"A">>, <<"a">>, <<"B">>}
CodecValues == {<<"1">>, <<>>, <<"x", " ", "y">>, <<"\"", "x", "\"">>}

\* Lines of the texts parsed: plain, padded, comment, no "=", empty, double
\* and single quoted, a lone quote, a second "=", an empty key, unmatched
\* quotes, an indented comment, a trailing carriage return.
CodecLines ==
  { <<"A", "=", "1">>,
    <<" ", "A", " ", "=", " ", "2", " ">>,
    <<"#", "A", "=", "3">>,
    <<"A">>,
    <<>>,
    <<"A", "=", "\"", "x", " ", "y", "\"">>,
    <<"B", "=", "'", "q", "'">>,
    <<"A", "=", "\"">>,
    <<"B", "=", "a", "=", "b">>,
    <<"=", "v">>,
    <<"A", "=", "\"", "x", "'">>,
    <<" ", "\t", "#", "c">>,
    <<"A", "=", "2", "\r">> }

\* The texts parsed: one line, or two.
CodecTexts == CodecLines \cup {a \o <<"\n">> \o b : a \in CodecLines, b \in CodecLines}

\* The inputs of one call, and what a call returned.
CodecArgs(op, base, overrides, text) ==
  [op |-> op, base |-> base, overrides |-> overrides, text |-> text]

Returned(env, text) == [kind |-> "returned", env |-> env, text |-> text]

\* applyOverrides(base, overrides)
Merge ==
  /\ args.op = "merge" /\ ret = NotCalled
  /\ ret' = Returned(applyOverrides(args.base, args.overrides), <<>>)
  /\ UNCHANGED <<remote, envFile, backupFile, gitignore, tracker, localOverrides,
                 localContext, context, faults, pc, inv, loc, exit, cmds, pre, trace,
                 sub, args>>

\* formatEnvContent(base), and parseEnvContent of the text it gave
Format ==
  /\ args.op = "format" /\ ret = NotCalled
  /\ ret' = Returned(parseEnvContent(formatEnvContent(args.base)),
                     formatEnvContent(args.base))
  /\ UNCHANGED <<remote, envFile, backupFile, gitignore, tracker, localOverrides,
                 localContext, context, faults, pc, inv, loc, exit, cmds, pre, trace,
                 sub, args>>

\* parseEnvContent(text)
Parse ==
  /\ args.op = "parse" /\ ret = NotCalled
  /\ ret' = Returned(parseEnvContent(args.text), <<>>)
  /\ UNCHANGED <<remote, envFile, backupFile, gitignore, tracker, localOverrides,
                 localContext, context, faults, pc, inv, loc, exit, cmds, pre, trace,
                 sub, args>>

CodecInit ==
  /\ Workspaces
  /\ context = "dev"
  /\ envFile["c1"] = NoFile
  /\ args \in {CodecArgs("merge", b, o, <<>>) :
                 b \in Mappings(MergeKeys, MergeValues),
                 o \in Mappings(MergeKeys, MergeValues)}
              \cup {CodecArgs("format", m, EmptyEnv, <<>>) :
                      m \in Mappings(CodecKeys, CodecValues)}
              \cup {CodecArgs("parse", EmptyEnv, EmptyEnv, t) : t \in CodecTexts}
  /\ ret = NotCalled

CodecNext == Merge \/ Format \/ Parse

CodecSpec == CodecInit /\ [][CodecNext]_vars

(***************************************************************************)
(* The display of the working file studied on its own.                     *)
(***************************************************************************)
\* Values of the files and overrides displayed: two short ones and one long
\* enough to keep its ends when masked.
DisplayValues == {<<"1">>, <<"2">>, <<"s", "e", "c", "r", "e", "t">>}

\* The working directories displayed: no .env, a blank one, or one that
\* format wrote; any overrides over the same keys.
DisplayProfiles ==
  { [envFile |-> f, tracker |-> <<>>, overrides |-> o, local |-> NoLocalFile,
     gitignore |-> NoFile] :
      f \in {NoFile, File(TextBlank)}
              \cup {File(formatEnvContent(m)) : m \in Mappings(MergeKeys, DisplayValues)},
      o \in Mappings(MergeKeys, DisplayValues) }

\* maskSecret(value, raw)
maskSecret(value, raw) ==
  IF raw THEN value
  ELSE IF Len(value) <= 4 THEN <<"*", "*", "*">>
  ELSE SubSeq(value, 1, 2) \o <<"*", "*", "*">> \o SubSeq(value, Len(value) - 1, Len(value))

\* What the command showed: the keys with the values displayed, the order of
\* the lines (plain mode), and the keys reported or marked as overrides.
Displayed(json, keys, order, overrides) ==
  [kind |-> "displayed", json |-> json, keys |-> keys, count |-> Cardinality(DOMAIN keys),
   order |-> order, overrides |-> overrides]

\* printCommand, run by c1 in its working directory.
printCommand ==
  /\ args.op = "print"
  /\ ret = NotCalled
  /\ LET envContent == readEnvFile(envFile["c1"])
         env == parseEnvContent(envContent)
         overrides == localOverrides["c1"]
     IN ret' = IF Trim(envContent) = <<>>
               THEN Displayed(args.json, EmptyEnv, <<>>, {})
               ELSE IF args.json
               THEN Displayed(TRUE, env, <<>>, DOMAIN overrides)
               ELSE Displayed(FALSE, [k \in DOMAIN env |-> maskSecret(env[k], args.raw)],
                              SortedKeys(DOMAIN env), DOMAIN env \cap DOMAIN overrides)
  /\ UNCHANGED <<remote, envFile, backupFile, gitignore, tracker, localOverrides, localContext,
                 context, faults, pc, inv, loc, exit, cmds, pre, trace, sub, args>>

DisplayInit ==
  /\ WorkspacesOf(DisplayProfiles)
  /\ context = "dev"
  /\ args \in {[op |-> "print", json |-> j, raw |-> r] : j \in BOOLEAN, r \in BOOLEAN}
  /\ ret = NotCalled

DisplayNext == printCommand

DisplaySpec == DisplayInit /\ [][DisplayNext]_vars

(***************************************************************************)
(* Environment management: delete, update, create, clone.                  *)
(***************************************************************************)
\* What a command of this family found when it started: the remote
\* environments and the context files, besides the files of Snapshot.
EnvSnapshot(c) ==
  [envFile |-> envFile[c], backupFile |-> backupFile[c],
   gitignore |-> gitignore[c], tracker |-> tracker[c],
   remote |-> remote, context |-> context,
   localContext |-> localContext[c], localOverrides |-> localOverrides[c]]

EnvBegin(c, options) ==
  /\ inv' = [inv EXCEPT ![c] = options]
  /\ cmds' = cmds + 1
  /\ pre' = [pre EXCEPT ![c] = EnvSnapshot(c)]

\* POST /envs/:id/delete and DELETE /envs/:id: the environment leaves the
\* listing.
RemoteDeleted(environments, e) == [x \in (DOMAIN environments) \ {e} |-> environments[x]]

\* One request sent to the remote and how the transport went.
Request(kind, environment, net) == [request |-> kind, environment |-> environment, net |-> net]

\* clearContextIfMatches: each context file that names the deleted
\* environment is unlinked.
clearContextIfMatches(deletedEnvironment, sharedFile, localFile) ==
  LET shared == loadSharedContext(sharedFile)
      local == loadLocalContext(localFile)
  IN [local |-> IF local.kind = "value" /\ local.environment = deletedEnvironment
                THEN ContextFile("absent", "", "", "") ELSE localFile,
      shared |-> IF shared.kind = "value" /\ shared.environment = deletedEnvironment
                 THEN ContextFile("absent", "", "", "") ELSE sharedFile]

\* The context files of c become shared and local (an unlinked .envsimple.local
\* takes its overrides with it).
ContextFilesBecome(c, shared, local) ==
  /\ context' = IF shared.state = "absent" THEN NoSharedFile ELSE shared.environment
  /\ localContext' = [localContext EXCEPT ![c] = local]
  /\ localOverrides' = [localOverrides EXCEPT ![c] =
                          IF local.state = "absent" THEN EmptyEnv ELSE @]

\* DeleteProceeds going on after any answer confirm() returned.
DeleteProceedsAnyAnswer(confirmed) == confirmed \notin Thrown

\* if (!confirmed) return: the deletion goes on only after a yes.
DeleteProceeds(confirmed) == confirmed = "yes"

\* envDeleteCommand, soft or with --permanent.
EnvDelete(c) ==
  /\ pc[c] = "idle"
  /\ cmds < MaxCmds
  /\ c = "c1"
  /\ \E mode \in {"plain", "json"}, permanent \in BOOLEAN, pre_ \in NetChoices :
       LET o == Options(c, "env delete", mode, permanent)
           ctx == Resolved(c, mode)
           resolved == pre_ = "ok" /\ ctx.kind = "value"
       IN \E lists \in (IF resolved THEN NetChoices ELSE {"ok"}) :
            LET envData == FindEnvironment(DOMAIN remote, ctx.environment)
                asks == resolved /\ lists = "ok" /\ envData # <<>>
            IN \E ans \in (IF asks THEN Answers ELSE {"yes"}) :
                 LET confirmed == IF asks THEN confirm(o.json, ans) ELSE "none"
                     sends == asks /\ DeleteProceeds(confirmed)
                 IN \E net \in (IF sends THEN NetChoices ELSE {"ok"}) :
                      LET failure ==
                            CASE pre_ = "fail" -> "AUTHENTICATION_REQUIRED"
                              [] pre_ = "ok" /\ ctx.kind = "error" -> ctx.error
                              [] pre_ = "ok" /\ ctx.kind = "null" -> "ENV_DELETE_ERROR"
                              [] resolved /\ lists = "fail" -> "NETWORK_ERROR"
                              [] resolved /\ lists = "ok" /\ envData = <<>> -> "ENV_DELETE_ERROR"
                              [] asks /\ confirmed \in Thrown -> confirmed
                              [] sends /\ net = "fail" -> "NETWORK_ERROR"
                              [] OTHER -> ""
                          cleared == clearContextIfMatches(ctx.environment, SharedFile,
                                                           localContext[c])
                      IN /\ EnvBegin(c, o)
                         /\ Faulted(IF "fail" \in {pre_, lists, net} THEN "fail" ELSE "ok")
                         /\ loc' = [loc EXCEPT ![c] = NoLocals]
                         /\ trace' = [trace EXCEPT ![c] =
                                        (IF asks THEN Prompted(o.json, "prompt_delete", ans)
                                         ELSE <<>>)
                                        \o (IF sends THEN <<"request">> ELSE <<>>)
                                        \o (IF failure # "" THEN <<failure>> ELSE <<>>)]
                         /\ sub' = [sub EXCEPT ![c] =
                                      IF sends
                                      THEN <<Request(IF permanent THEN "hard_delete" ELSE "delete",
                                                     envData[1], net)>>
                                      ELSE <<>>]
                         /\ IF failure # ""
                            THEN /\ Finish(c, 1, "error", failure)
                                 /\ UNCHANGED <<remote, context, localContext, localOverrides>>
                            ELSE IF ~sends
                            THEN /\ Finish(c, 0, "declined", "")
                                 /\ UNCHANGED <<remote, context, localContext, localOverrides>>
                            ELSE /\ remote' = RemoteDeleted(remote, envData[1])
                                 /\ ContextFilesBecome(c, cleared.shared, cleared.local)
                                 /\ Finish(c, 0, "success", "")
  /\ UNCHANGED <<envFile, backupFile, gitignore, tracker, args, ret>>

\* POST /projects/:id/envs: a new environment without versions; and the
\* clone request: a new environment holding the versions of the source.
RemoteCreated(environments, name) == (name :> <<>>) @@ environments
RemoteCloned(environments, source, name) == (name :> environments[source]) @@ environments

\* The names env create and env clone are given: one the remote holds at
\* first and one it does not; and the sources env clone is given: one the
\* remote holds at first and one it never lists.
NewNames == {"dev", "stage"}
CloneSources == {"dev", "qa"}

\* The object { environment: name } the commands hand to saveLocalContext.
EnvironmentOnly(name) ==
  [org |-> "", project |-> "", environment |-> name, overrides |-> EmptyEnv]

\* saveLocalContext: .envsimple.local is overwritten with the object given.
saveLocalContext(localContext_) ==
  [file |-> ContextFile("object", localContext_.org, localContext_.project,
                        localContext_.environment),
   overrides |-> localContext_.overrides]

\* saveSharedContext: .envsimple is overwritten with the object given.
saveSharedContext(org, project, environment) ==
  ContextFile("object", org, project, environment)

\* The local context file of c becomes what saveLocalContext writes.
LocalFileBecomes(c, saved) ==
  /\ localContext' = [localContext EXCEPT ![c] = saved.file]
  /\ localOverrides' = [localOverrides EXCEPT ![c] = saved.overrides]

\* select() of prompts.ts: thrown in JSON mode and on Ctrl+C, else the choice.
select(json, choice) ==
  CASE json -> "INTERACTIVE_REQUIRED"
    [] ~json /\ choice = "cancel" -> "CANCELLED"
    [] OTHER -> choice

\* updateCommand, with or without --shared.
Update(c) ==
  /\ pc[c] = "idle"
  /\ cmds < MaxCmds
  /\ c = "c1"
  /\ \E mode \in {"plain", "json"}, shared \in BOOLEAN, pre_ \in NetChoices :
       LET ctx == Resolved(c, mode)
           resolved == pre_ = "ok" /\ ctx.kind = "value"
       IN \E lists \in (IF resolved THEN NetChoices ELSE {"ok"}) :
            LET selects == resolved /\ lists = "ok" /\ DOMAIN remote # {}
            IN \E choice \in (IF selects THEN DOMAIN remote \cup {"cancel"} ELSE {"cancel"}) :
                 LET o == Options(c, "update", mode, [shared |-> shared, choice |-> choice])
                     selected == IF selects THEN select(o.json, choice) ELSE "none"
                     failure ==
                       CASE pre_ = "fail" -> "AUTHENTICATION_REQUIRED"
                         [] pre_ = "ok" /\ ctx.kind = "error" -> ctx.error
                         [] pre_ = "ok" /\ ctx.kind = "null" -> "UPDATE_ERROR"
                         [] resolved /\ lists = "fail" -> "NETWORK_ERROR"
                         [] resolved /\ lists = "ok" /\ DOMAIN remote = {} -> "UPDATE_ERROR"
                         [] selects /\ selected \in Thrown -> selected
                         [] OTHER -> ""
                 IN /\ EnvBegin(c, o)
                    /\ Faulted(IF "fail" \in {pre_, lists} THEN "fail" ELSE "ok")
                    /\ loc' = [loc EXCEPT ![c] = NoLocals]
                    /\ sub' = [sub EXCEPT ![c] = <<>>]
                    /\ trace' = [trace EXCEPT ![c] =
                                   IF failure # "" THEN <<failure>>
                                   ELSE <<"select", selected, "save">>]
                    /\ IF failure # ""
                       THEN /\ Finish(c, 1, "error", failure)
                            /\ UNCHANGED <<context, localContext, localOverrides>>
                       ELSE IF shared
                       THEN /\ context' = saveSharedContext(ctx.org, ctx.project,
                                                            selected).environment
                            /\ Finish(c, 0, "success", "")
                            /\ UNCHANGED <<localContext, localOverrides>>
                       ELSE /\ LocalFileBecomes(c, saveLocalContext(EnvironmentOnly(selected)))
                            /\ Finish(c, 0, "success", "")
                            /\ UNCHANGED context
  /\ UNCHANGED <<remote, envFile, backupFile, gitignore, tracker, args, ret>>

\* envCreateCommand(name)
EnvCreate(c) ==
  /\ pc[c] = "idle"
  /\ cmds < MaxCmds
  /\ c = "c1"
  /\ \E mode \in {"plain", "json"}, name \in NewNames, pre_ \in NetChoices :
       LET o == Options(c, "env create", mode, name)
           ctx == Resolved(c, mode)
           resolved == pre_ = "ok" /\ ctx.kind = "value"
       IN \E lists \in (IF resolved THEN NetChoices ELSE {"ok"}) :
            LET sends == resolved /\ lists = "ok"
            IN \E net \in (IF sends THEN NetChoices ELSE {"ok"}) :
                 LET failure ==
                       CASE pre_ = "fail" -> "AUTHENTICATION_REQUIRED"
                         [] pre_ = "ok" /\ ctx.kind = "error" -> ctx.error
                         [] pre_ = "ok" /\ ctx.kind = "null" -> "ENV_CREATE_ERROR"
                         [] resolved /\ lists = "fail" -> "NETWORK_ERROR"
                         [] sends /\ net = "fail" -> "NETWORK_ERROR"
                         [] sends /\ net = "ok" /\ name \in DOMAIN remote -> "ENV_CREATE_ERROR"
                         [] OTHER -> ""
                 IN /\ EnvBegin(c, o)
                    /\ Faulted(IF "fail" \in {pre_, lists, net} THEN "fail" ELSE "ok")
                    /\ loc' = [loc EXCEPT ![c] = NoLocals]
                    /\ sub' = [sub EXCEPT ![c] =
                                 IF sends THEN <<Request("create", name, net)>> ELSE <<>>]
                    /\ trace' = [trace EXCEPT ![c] =
                                   (IF sends THEN <<"request">> ELSE <<>>)
                                   \o (IF failure # "" THEN <<failure>> ELSE <<"save">>)]
                    /\ IF failure # ""
                       THEN /\ Finish(c, 1, "error", failure)
                            /\ UNCHANGED <<remote, localContext, localOverrides>>
                       ELSE /\ remote' = RemoteCreated(remote, name)
                            /\ LocalFileBecomes(c, saveLocalContext(EnvironmentOnly(name)))
                            /\ Finish(c, 0, "success", "")
  /\ UNCHANGED <<envFile, backupFile, gitignore, tracker, context, args, ret>>

\* envCloneCommand(sourceName, destName)
EnvClone(c) ==
  /\ pc[c] = "idle"
  /\ cmds < MaxCmds
  /\ c = "c1"
  /\ \E mode \in {"plain", "json"}, sourceName \in CloneSources, destName \in NewNames,
        pre_ \in NetChoices :
       LET o == Options(c, "env clone", mode, [source |-> sourceName, dest |-> destName])
           ctx == Resolved(c, mode)
           resolved == pre_ = "ok" /\ ctx.kind = "value"
       IN \E lists \in (IF resolved THEN NetChoices ELSE {"ok"}) :
            LET sourceEnv == FindEnvironment(DOMAIN remote, sourceName)
                sends == resolved /\ lists = "ok" /\ sourceEnv # <<>>
            IN \E net \in (IF sends THEN NetChoices ELSE {"ok"}) :
                 LET failure ==
                       CASE pre_ = "fail" -> "AUTHENTICATION_REQUIRED"
                         [] pre_ = "ok" /\ ctx.kind = "error" -> ctx.error
                         [] pre_ = "ok" /\ ctx.kind = "null" -> "ENV_CLONE_ERROR"
                         [] resolved /\ lists = "fail" -> "NETWORK_ERROR"
                         [] resolved /\ lists = "ok" /\ sourceEnv = <<>> -> "ENV_CLONE_ERROR"
                         [] sends /\ net = "fail" -> "NETWORK_ERROR"
                         [] sends /\ net = "ok" /\ destName \in DOMAIN remote -> "ENV_CLONE_ERROR"
                         [] OTHER -> ""
                 IN /\ EnvBegin(c, o)
                    /\ Faulted(IF "fail" \in {pre_, lists, net} THEN "fail" ELSE "ok")
                    /\ loc' = [loc EXCEPT ![c] = NoLocals]
                    /\ sub' = [sub EXCEPT ![c] =
                                 IF sends THEN <<Request("clone", destName, net)>> ELSE <<>>]
                    /\ trace' = [trace EXCEPT ![c] =
                                   (IF sends THEN <<"request">> ELSE <<>>)
                                   \o (IF failure # "" THEN <<failure>> ELSE <<"save">>)]
                    /\ IF failure # ""
                       THEN /\ Finish(c, 1, "error", failure)
                            /\ UNCHANGED <<remote, localContext, localOverrides>>
                       ELSE /\ remote' = RemoteCloned(remote, sourceEnv[1], destName)
                            /\ LocalFileBecomes(c, saveLocalContext(EnvironmentOnly(destName)))
                            /\ Finish(c, 0, "success", "")
  /\ UNCHANGED <<envFile, backupFile, gitignore, tracker, context, args, ret>>

\* The working directories the environment commands start from: without
\* .envsimple.local; with one that names an environment and declares an
\* override; with one that also holds org and project.
EnvProfiles ==
  { [envFile |-> NoFile, tracker |-> <<>>, overrides |-> EmptyEnv, local |-> NoLocalFile,
     gitignore |-> NoFile],
    [envFile |-> File(TextA2), tracker |-> SyncedTracker, overrides |-> OverrideB,
     local |-> ContextFile("object", "", "", "dev"), gitignore |-> NoFile],
    [envFile |-> File(TextA2), tracker |-> SyncedTracker, overrides |-> OverrideB,
     local |-> ContextFile("object", Org, Project, "prod"), gitignore |-> NoFile] }

\* The shared context names dev, or qa that the remote does not list, or no
\* environment at all.
EnvInit ==
  /\ WorkspacesOf(EnvProfiles)
  /\ context \in {"dev", "qa", ""}
  /\ args = NoArgs
  /\ ret = NotCalled

EnvNext == \E c \in Clients : EnvDelete(c) \/ Update(c) \/ EnvCreate(c) \/ EnvClone(c)

EnvSpec == EnvInit /\ [][EnvNext]_vars

(***************************************************************************)
(* Properties.                                                             *)
(***************************************************************************)
\* The tracker key of the context c's command runs in.
KeyOf(c) == VersionKey(Org, Project, inv[c].environment)

\* c's command cmd has run to its end.
Done(c, cmd) == inv[c].cmd = cmd /\ pc[c] = "idle"

\* The effect or answer ev is part of what c's command did so far.
InTrace(c, ev) == \E i \in DOMAIN trace[c] : trace[c][i] = ev

\* The user answered the prompt with ans.
Answered(c, prompt, ans) ==
  \E i \in DOMAIN trace[c] :
    i < Len(trace[c]) /\ trace[c][i] = prompt /\ trace[c][i + 1] = ans

\* The plaintext of version v of environment e (version 0: nothing pushed).
PlainAt(e, v) == IF v = 0 THEN <<>> ELSE remote[e][v].plaintext

\* C1. Of two pushes to the same environment that both hold base version b and
\* whose submissions both reach the remote, one of them while the remote is at
\* b, exactly one is accepted and the other is answered with a conflict; and
\* no submission is accepted while holding a base other than the version the
\* remote is at.
C1_ExactlyOneAccepted ==
  /\ \A c \in Clients : \A i \in DOMAIN sub[c] :
       (sub[c][i].verdict = "accepted" /\ sub[c][i].base # Undefined)
         => sub[c][i].base = Some(sub[c][i].at)
  /\ \A c, d \in Clients :
       ( /\ c # d
         /\ sub[c] # <<>> /\ sub[d] # <<>>
         /\ inv[c].environment = inv[d].environment
         /\ sub[c][1].base # Undefined
         /\ sub[c][1].base = sub[d][1].base
         /\ sub[c][1].verdict # "failed" /\ sub[d][1].verdict # "failed"
         /\ Some(sub[c][1].at) = sub[c][1].base )
       => sub[c][1].verdict = "accepted" /\ sub[d][1].verdict = "conflict"

\* Both clients pushed holding the same base; one won, the other conflicted.
C1_Witness ==
  \E c, d \in Clients :
    /\ c # d /\ sub[c] # <<>> /\ sub[d] # <<>>
    /\ sub[c][1].base # Undefined /\ sub[c][1].base = sub[d][1].base
    /\ sub[c][1].verdict = "accepted" /\ sub[d][1].verdict = "conflict"

\* C2 as stated. Every conflict of a push that is neither forced nor in token
\* mode is followed by exactly one offer of a forced retry, and an accepted
\* offer's resubmission succeeds.
C2_AsStated ==
  \A c \in Clients :
    ( /\ Done(c, "push") /\ ~inv[c].force /\ ~inv[c].token
      /\ sub[c] # <<>> /\ sub[c][1].verdict = "conflict" )
    => /\ Len(SelectSeq(trace[c], LAMBDA ev : ev = "prompt_force")) = 1
       /\ Answered(c, "prompt_force", "yes")
            => Len(sub[c]) = 2 /\ sub[c][2].verdict = "accepted"
       /\ Len(sub[c]) <= 2

\* C2. A push submits at most twice.  After a conflict of a push that is
\* neither forced nor in token mode, JSON mode makes no offer and ends in an
\* error; otherwise exactly one forced retry is offered.  An
\* accepted offer resubmits the same payload with the base omitted; the remote
\* never answers it with a conflict, and once it is accepted the new version
\* is flagged is_forced_push and the tracker holds its number.
C2_ForcedRetry ==
  \A c \in Clients :
    /\ Len(sub[c]) <= 2
    /\ ( /\ Done(c, "push") /\ ~inv[c].force /\ ~inv[c].token
         /\ sub[c] # <<>> /\ sub[c][1].verdict = "conflict" )
       => IF inv[c].json
          THEN /\ ~InTrace(c, "prompt_force")
               /\ Len(sub[c]) = 1
               /\ exit[c].result = "error" /\ exit[c].code # 0
          ELSE /\ Len(SelectSeq(trace[c], LAMBDA ev : ev = "prompt_force")) = 1
               /\ Answered(c, "prompt_force", "yes") <=> Len(sub[c]) = 2
    /\ Len(sub[c]) = 2
       => /\ sub[c][1].verdict = "conflict"
          /\ ~inv[c].force /\ ~inv[c].token
          /\ sub[c][2].sent = Undefined
          /\ sub[c][2].plaintext = sub[c][1].plaintext
          /\ sub[c][2].verdict \in {"accepted", "failed"}
          /\ sub[c][2].verdict = "accepted"
               => LET e == inv[c].environment
                      v == sub[c][2].version
                  IN /\ v \in 1..Len(remote[e])
                     /\ remote[e][v].is_forced_push
                     /\ remote[e][v].plaintext = sub[c][1].plaintext
                     /\ KeyOf(c) \in DOMAIN tracker[c]
                     /\ tracker[c][KeyOf(c)].base_version = v
                     /\ exit[c] = Ended(0, "success", "")

\* A conflict, the offer taken, and the forced resubmission accepted.
C2_Witness ==
  \E c \in Clients :
    /\ Done(c, "push") /\ Len(sub[c]) = 2
    /\ sub[c][1].verdict = "conflict" /\ sub[c][2].verdict = "accepted"
    /\ Answered(c, "prompt_force", "yes")

\* C3. A push that was answered with a conflict and whose user declined the
\* forced retry (or that was forced or in token mode already) ends with the
\* Conflict error and a non-zero exit code, has created no remote version,
\* and leaves the tracker as it was.
C3_DeclinedConflict ==
  \A c \in Clients :
    ( /\ Done(c, "push")
      /\ sub[c] # <<>> /\ sub[c][1].verdict = "conflict"
      /\ inv[c].force \/ inv[c].token \/ Answered(c, "prompt_force", "no") )
    => /\ exit[c].result = "error" /\ exit[c].error = "CONFLICT"
       /\ exit[c].code # 0
       /\ \A i \in DOMAIN sub[c] : sub[c][i].verdict # "accepted"
       /\ tracker[c] = pre[c].tracker

\* A conflict whose forced retry the user declined.
C3_Witness ==
  \E c \in Clients :
    /\ Done(c, "push") /\ sub[c] # <<>> /\ sub[c][1].verdict = "conflict"
    /\ Answered(c, "prompt_force", "no")
    /\ exit[c].error = "CONFLICT"

\* C4. The base a push first sends: none in force or token mode, where the
\* tracker is not consulted; else the tracker entry's base version when the
\* context has one, 0 included; else the version a best-effort read found the
\* remote at; and when that read fails the push still submits, with no base.
C4_BaseDetermination ==
  \A c \in Clients :
    /\ (inv[c].cmd = "push" /\ sub[c] # <<>>)
       => LET o == inv[c]
              info == getVersionInfo(pre[c].tracker, Org, Project, o.environment)
              first == sub[c][1]
          IN CASE o.force \/ o.token ->
                    /\ first.sent = Undefined
                    /\ ~InTrace(c, "tracker_get") /\ ~InTrace(c, "remote_read")
               [] ~(o.force \/ o.token) /\ info # <<>> ->
                    /\ first.sent = Some(info[1].base_version)
                    /\ ~InTrace(c, "remote_read")
               [] OTHER ->
                    /\ InTrace(c, "remote_read")
                    /\ first.sent = IF loc[c].read = "ok" THEN Some(loc[c].readAt)
                                    ELSE Undefined
    /\ (inv[c].cmd = "push" /\ loc[c].read = "fail" /\ pc[c] = "idle")
       => sub[c] # <<>>

\* A plain push whose tracker entry says 0 sent 0 as its base.
C4_Witness ==
  \E c \in Clients :
    /\ inv[c].cmd = "push" /\ ~inv[c].force /\ ~inv[c].token
    /\ sub[c] # <<>> /\ sub[c][1].sent = Some(0)
    /\ getVersionInfo(pre[c].tracker, Org, Project, inv[c].environment) # <<>>

\* C5. After a successful pull, rollback or push the tracker entry of the
\* command's context holds, as base version, the number of the snapshot just
\* written to the working file (pull, rollback) or of the version the remote
\* returned (push), and no other entry changed; a command that ended in an
\* error or was declined leaves the tracker as it was.
C5_TrackerHoldsVersion ==
  \A c \in Clients :
    /\ (pc[c] = "idle" /\ exit[c].result = "success"
          /\ inv[c].cmd \in {"pull", "rollback", "push"})
       => LET e == inv[c].environment
              key == KeyOf(c)
          IN /\ key \in DOMAIN tracker[c]
             /\ DOMAIN tracker[c] = DOMAIN pre[c].tracker \cup {key}
             /\ \A k \in DOMAIN tracker[c] \ {key} : tracker[c][k] = pre[c].tracker[k]
             /\ LET v == tracker[c][key].base_version
                IN /\ v \in 0..Len(remote[e])
                   /\ IF inv[c].cmd = "push"
                      THEN /\ v = sub[c][Len(sub[c])].version
                           /\ v > 0
                           /\ PlainAt(e, v) = sub[c][Len(sub[c])].plaintext
                      ELSE /\ v = loc[c].snapshot
                           /\ envFile[c] =
                                File(formatEnvContent(
                                  IF inv[c].token THEN parseEnvContent(PlainAt(e, v))
                                  ELSE applyOverrides(parseEnvContent(PlainAt(e, v)),
                                                      localOverrides[c])))
    /\ (pc[c] = "idle" /\ exit[c].result \in {"error", "declined"})
       => tracker[c] = pre[c].tracker

\* A pull of an older version succeeded and the tracker holds that number,
\* not the current one.
C5_Witness ==
  \E c \in Clients :
    /\ Done(c, "pull") /\ exit[c].result = "success"
    /\ inv[c].arg # 0
    /\ tracker[c][KeyOf(c)].base_version = inv[c].arg
    /\ inv[c].arg < Len(remote[inv[c].environment])

\* C6 as stated. A successful rollback of a context at version n to target t
\* has created a version above n with the content of t, recorded that new
\* number as the base, and left the working file with the formatted content
\* of t under the local overrides.
C6_RollbackResult ==
  \A c \in Clients :
    (Done(c, "rollback") /\ exit[c].result = "success")
    => LET e == inv[c].environment
           t == inv[c].arg
           n == loc[c].readAt
           v == loc[c].version
       IN /\ v > n /\ v \in 1..Len(remote[e])
          /\ PlainAt(e, v) = PlainAt(e, t)
          /\ tracker[c][KeyOf(c)].base_version = v
          /\ envFile[c] = File(formatEnvContent(
                            applyOverrides(parseEnvContent(PlainAt(e, t)),
                                           localOverrides[c])))

\* C7. Rollback writes nothing locally unless the remote rollback succeeded,
\* and a successful rollback runs in the order remote rollback, backup of the
\* existing working file, fetch, write, tracker record: while the fetch is
\* pending the backup holds the old working file and nothing else changed.
C7_RollbackOrder ==
  \A c \in Clients :
    inv[c].cmd = "rollback"
    => LET e == inv[c].environment
           changed == \/ envFile[c] # pre[c].envFile
                      \/ backupFile[c] # pre[c].backupFile
                      \/ tracker[c] # pre[c].tracker
                      \/ gitignore[c] # pre[c].gitignore
           captured == IF ~pre[c].envFile.exists THEN pre[c].backupFile
                       ELSE IF pre[c].backupFile.exists
                            THEN File(pre[c].backupFile.content \o Separator
                                        \o pre[c].envFile.content)
                            ELSE File(pre[c].envFile.content)
       IN /\ ~InTrace(c, "rollback") => ~changed /\ pc[c] = "idle" /\ exit[c].result = "error"
          /\ InTrace(c, "rollback")
               => /\ loc[c].version \in 1..Len(remote[e])
                  /\ PlainAt(e, loc[c].version) = PlainAt(e, inv[c].arg)
                  /\ backupFile[c] = captured
          /\ pc[c] = "rollback_fetch"
               => /\ trace[c] \in {<<"rollback">>, <<"rollback", "backup">>}
                  /\ envFile[c] = pre[c].envFile
                  /\ tracker[c] = pre[c].tracker
          /\ (pc[c] = "idle" /\ exit[c].result = "success")
               => trace[c] \in {<<"rollback", "fetch", "write", "record">>,
                                <<"rollback", "backup", "fetch", "write", "record">>}
          /\ (pc[c] = "idle" /\ exit[c].result = "error")
               => envFile[c] = pre[c].envFile /\ tracker[c] = pre[c].tracker

\* The remote rollback returned and the old working file is in the backup,
\* while the fetch is still to come and the working file is untouched.
C7_Witness ==
  \E c \in Clients :
    /\ inv[c].cmd = "rollback" /\ pc[c] = "rollback_fetch"
    /\ trace[c] = <<"rollback", "backup">>
    /\ backupFile[c] # pre[c].backupFile
    /\ envFile[c] = pre[c].envFile

\* C8 as stated. A command that the user aborted or that failed at the remote
\* leaves the backup, the working file and the tracker as they were.
C8_AsStated ==
  \A c \in Clients :
    (pc[c] = "idle" /\ exit[c].result \in {"error", "declined"})
    => /\ backupFile[c] = pre[c].backupFile
       /\ envFile[c] = pre[c].envFile
       /\ tracker[c] = pre[c].tracker

\* C8. The tracker is written only after the command's fetch or submission
\* succeeded; pull writes its backup only after a successful fetch, rollback
\* only after the remote rollback succeeded, push when it comes to submit,
\* before the remote answers.  A command that was aborted, declined or failed
\* leaves the working file, the tracker and the ignore file as they were, and
\* the backup too unless it is a push that came to submit or a rollback whose
\* remote rollback succeeded.
C8_NoPartialState ==
  \A c \in Clients :
    LET cmd == inv[c].cmd
        ended == pc[c] = "idle" /\ exit[c].result \in {"error", "declined"}
        grown == backupFile[c] # pre[c].backupFile
    IN /\ tracker[c] # pre[c].tracker
            => \/ cmd \in {"pull", "rollback"} /\ InTrace(c, "fetch")
               \/ cmd = "push" /\ \E i \in DOMAIN sub[c] : sub[c][i].verdict = "accepted"
       /\ envFile[c] # pre[c].envFile
            => cmd \in {"pull", "rollback"} /\ InTrace(c, "fetch")
       /\ (cmd = "pull" /\ grown) => InTrace(c, "fetch") /\ exit[c].result = "success"
       /\ (cmd = "rollback" /\ grown) => InTrace(c, "rollback")
       /\ (cmd = "push" /\ grown) => sub[c] # <<>> /\ ~inv[c].token
       /\ ended => /\ envFile[c] = pre[c].envFile
                   /\ tracker[c] = pre[c].tracker
                   /\ gitignore[c] = pre[c].gitignore
       /\ (ended /\ grown) => \/ cmd = "push" /\ sub[c] # <<>>
                              \/ cmd = "rollback" /\ InTrace(c, "rollback")

\* A push that the remote did not accept: the backup has a new capture, the
\* working file and the tracker are as before.
C8_Witness ==
  \E c \in Clients :
    /\ Done(c, "push") /\ exit[c].result = "error"
    /\ sub[c] # <<>> /\ sub[c][1].verdict = "conflict"
    /\ backupFile[c] # pre[c].backupFile
    /\ tracker[c] = pre[c].tracker /\ envFile[c] = pre[c].envFile

\* C9. Pull leaves a new backup capture only if it succeeded, a working file
\* existed, and the content it computed differs from that file's content
\* after line endings are normalised.
C9_BackupOnlyIfDiffers ==
  \A c \in Clients :
    (inv[c].cmd = "pull" /\ backupFile[c] # pre[c].backupFile)
    => /\ exit[c].result = "success"
       /\ pre[c].envFile.exists
       /\ ReplaceCRLF(pre[c].envFile.content) # ReplaceCRLF(loc[c].content)

\* A pull over a working file that differs from the new content in its line
\* endings only: no capture.
C9_Witness ==
  \E c \in Clients :
    /\ Done(c, "pull") /\ exit[c].result = "success" /\ ~inv[c].token
    /\ pre[c].envFile.exists
    /\ pre[c].envFile.content # loc[c].content
    /\ ReplaceCRLF(pre[c].envFile.content) = ReplaceCRLF(loc[c].content)
    /\ backupFile[c] = pre[c].backupFile

C11_AppendOnly ==
  \A c \in Clients :
    LET before == pre[c].backupFile
        old == pre[c].envFile
    IN /\ before.exists => backupFile[c].exists
       /\ \/ backupFile[c] = before
          \/ ~before.exists /\ old.exists /\ backupFile[c] = File(old.content)
          \/ /\ before.exists /\ old.exists
             /\ backupFile[c] = File(before.content \o Separator \o old.content)
             /\ Separator = <<"\n", "\n", "# ===== Backup from ", Timestamp,
                              " =====", "\n", "\n">>

\* A push found a backup and appended the working file behind a separator.
C11_Witness ==
  \E c \in Clients :
    /\ Done(c, "push")
    /\ pre[c].backupFile.exists /\ pre[c].envFile.exists
    /\ backupFile[c] = File(pre[c].backupFile.content \o Separator
                              \o pre[c].envFile.content)

\* C12. Every payload of a push whose user declined to include the colliding
\* override keys holds none of the declared override keys and every other
\* key of the working file with the working file's value; every payload of a
\* push whose user confirmed holds the working file's keys and values
\* unchanged.
C12_StripOnDecline ==
  \A c \in Clients :
    \A i \in DOMAIN sub[c] :
      LET payload == parseEnvContent(sub[c][i].plaintext)
          working == parseEnvContent(pre[c].envFile.content)
          declared == DOMAIN localOverrides[c]
      IN /\ Answered(c, "prompt_override", "no")
            => /\ (DOMAIN payload) \cap declared = {}
               /\ DOMAIN payload = (DOMAIN working) \ declared
               /\ \A k \in DOMAIN payload : payload[k] = working[k]
         /\ Answered(c, "prompt_override", "yes") => payload = working

\* A push whose user declined was accepted with the colliding key left out.
C12_Witness ==
  \E c \in Clients :
    /\ Done(c, "push") /\ exit[c].result = "success"
    /\ Answered(c, "prompt_override", "no")
    /\ (DOMAIN parseEnvContent(pre[c].envFile.content)) \cap (DOMAIN localOverrides[c]) # {}
    /\ sub[c] # <<>>
    /\ DOMAIN parseEnvContent(sub[c][1].plaintext) = { <<"A">> }

\* C13. After a successful push whose colliding override keys were stripped,
\* the version that push created still holds, for each stripped key the
\* previous version had, the previous version's value.
C13_RemoteKeepsStripped ==
  \A c \in Clients :
    ( /\ Done(c, "push") /\ exit[c].result = "success"
      /\ Answered(c, "prompt_override", "no") )
    => LET e == inv[c].environment
           v == sub[c][Len(sub[c])].version
           before == parseEnvContent(PlainAt(e, v - 1))
           after == parseEnvContent(PlainAt(e, v))
           stripped == (DOMAIN parseEnvContent(pre[c].envFile.content))
                         \cap (DOMAIN localOverrides[c])
       IN \A k \in stripped \cap (DOMAIN before) :
            k \in DOMAIN after /\ after[k] = before[k]

\* C14 as stated. No push submits a value for a key declared in the local
\* overrides unless its user confirmed the inclusion during that invocation.
C14_AsStated ==
  \A c \in Clients :
    \A i \in DOMAIN sub[c] :
      (DOMAIN parseEnvContent(sub[c][i].plaintext)) \cap (DOMAIN localOverrides[c]) # {}
        => Answered(c, "prompt_override", "yes")

\* C14. A push that submits a value for a key declared in the local overrides
\* either had its user confirm the inclusion during that invocation, or ran
\* forced or in token mode, where the question is not asked; a push in
\* neither mode that finds such a key in the working file submits nothing
\* before the question is answered.
C14_ExcludedUnlessConfirmed ==
  \A c \in Clients :
    /\ \A i \in DOMAIN sub[c] :
         (DOMAIN parseEnvContent(sub[c][i].plaintext)) \cap (DOMAIN localOverrides[c]) # {}
           => \/ Answered(c, "prompt_override", "yes")
              \/ (inv[c].force \/ inv[c].token) /\ ~InTrace(c, "prompt_override")
    /\ ( /\ inv[c].cmd = "push" /\ ~inv[c].force /\ ~inv[c].token /\ sub[c] # <<>>
         /\ (DOMAIN parseEnvContent(pre[c].envFile.content))
              \cap (DOMAIN localOverrides[c]) # {} )
       => Answered(c, "prompt_override", "yes") \/ Answered(c, "prompt_override", "no")

\* A push whose user confirmed submitted the override key.
C14_Witness ==
  \E c \in Clients :
    /\ Done(c, "push") /\ sub[c] # <<>>
    /\ <<"B">> \in DOMAIN parseEnvContent(sub[c][1].plaintext)
    /\ <<"B">> \in DOMAIN localOverrides[c]
    /\ Answered(c, "prompt_override", "yes")

\* C15. Outside JSON and token mode a pull that fetched a snapshot with
\* version_number 0 or without keys asks before it overwrites anything: it
\* goes on only after a yes, and after a no it ends with exit code 0 and has
\* captured no backup, written no working file, left the ignore file and the
\* tracker as they were.
C15_ConfirmEmptyPull ==
  \A c \in Clients :
    ( /\ Done(c, "pull") /\ InTrace(c, "fetch")
      /\ ~inv[c].json /\ ~inv[c].token
      /\ exit[c].error \notin {"NETWORK_ERROR", "NOT_FOUND"}
      /\ (loc[c].snapshot = 0 \/ DOMAIN parseEnvContent(loc[c].plaintext) = {}) )
    => /\ InTrace(c, "prompt_overwrite")
       /\ exit[c].result = "success" => Answered(c, "prompt_overwrite", "yes")
       /\ (InTrace(c, "write") \/ InTrace(c, "backup") \/ InTrace(c, "record"))
            => Answered(c, "prompt_overwrite", "yes")
       /\ Answered(c, "prompt_overwrite", "no")
            => /\ exit[c] = Ended(0, "declined", "")
               /\ envFile[c] = pre[c].envFile
               /\ backupFile[c] = pre[c].backupFile
               /\ gitignore[c] = pre[c].gitignore
               /\ tracker[c] = pre[c].tracker

\* A pull of an older version that holds no keys was declined and left a
\* differing working file alone.
C15_Witness ==
  \E c \in Clients :
    /\ Done(c, "pull") /\ inv[c].arg = 1
    /\ loc[c].snapshot = 1 /\ DOMAIN parseEnvContent(loc[c].plaintext) = {}
    /\ Answered(c, "prompt_overwrite", "no")
    /\ envFile[c].exists /\ exit[c].code = 0

\* C16. A command in JSON mode shows no prompt.  Where a push in JSON mode
\* needs an answer, INTERACTIVE_REQUIRED is raised instead and what the answer
\* was needed for is not done: with colliding override keys in the working
\* file nothing is submitted and the command ends with that error; after a
\* conflict no forced retry is submitted and the command ends in an error.
C16_JsonNeverPrompts ==
  \A c \in Clients :
    inv[c].json
    => /\ \A i \in DOMAIN trace[c] :
            trace[c][i] \notin {"prompt_override", "prompt_force", "prompt_overwrite"}
       /\ ( /\ Done(c, "push")
            /\ exit[c].error \notin {"AUTHENTICATION_REQUIRED", "CONFIGURATION_ERROR"}
            /\ (DOMAIN parseEnvContent(pre[c].envFile.content))
                 \cap (DOMAIN localOverrides[c]) # {} )
          => /\ exit[c] = Ended(1, "error", "INTERACTIVE_REQUIRED")
             /\ InTrace(c, "INTERACTIVE_REQUIRED")
             /\ sub[c] = <<>>
             /\ ~InTrace(c, "submit") /\ ~InTrace(c, "backup")
             /\ tracker[c] = pre[c].tracker /\ backupFile[c] = pre[c].backupFile
       /\ ( /\ Done(c, "push") /\ sub[c] # <<>> /\ sub[c][1].verdict = "conflict" )
          => /\ Len(sub[c]) = 1
             /\ exit[c].result = "error" /\ exit[c].code # 0
             /\ tracker[c] = pre[c].tracker

\* A push in JSON mode found colliding override keys and ended with
\* INTERACTIVE_REQUIRED.
C16_Witness ==
  \E c \in Clients :
    /\ Done(c, "push") /\ inv[c].json
    /\ (DOMAIN parseEnvContent(pre[c].envFile.content)) \cap (DOMAIN localOverrides[c]) # {}
    /\ exit[c].error = "INTERACTIVE_REQUIRED"

\* C17. A push in JSON mode whose submission the remote rejected for a
\* base-version mismatch ends with the error code CONFLICT and a non-zero
\* exit code.
C17_JsonConflictCode ==
  \A c \in Clients :
    ( /\ Done(c, "push") /\ inv[c].json
      /\ sub[c] # <<>> /\ sub[c][1].verdict = "conflict" )
    => exit[c].error = "CONFLICT" /\ exit[c].code # 0

\* The error codes of the taxonomy and of the prompts.
Taxonomy ==
  {"AUTHENTICATION_REQUIRED", "PERMISSION_DENIED", "NOT_FOUND", "CONFLICT",
   "VALIDATION_ERROR", "CONFIGURATION_ERROR", "NETWORK_ERROR", "CANCELLED",
   "INTERACTIVE_REQUIRED"}

\* C18. A command during which an error of the taxonomy was raised ends in an
\* error with a non-zero exit code; only the failed best-effort read of the
\* remote version for the push base is passed over (and a conflict whose
\* forced retry was accepted ends in success).
C18_ErrorsEndNonZero ==
  \A c \in Clients :
    pc[c] = "idle"
    => LET raised == {trace[c][i] : i \in DOMAIN trace[c]}
                       \cap (Taxonomy \cup {"USER_INFO_FAILED"})
           retried == Len(sub[c]) = 2 /\ sub[c][2].verdict = "accepted"
       IN (raised # {} /\ ~(raised = {"CONFLICT"} /\ retried))
            => exit[c].result = "error" /\ exit[c].code # 0

\* C19. A pull, push or rollback whose context names an environment the
\* remote listings do not hold ends in an error with a non-zero exit code,
\* without a snapshot fetch, a submission, a remote rollback or a read of the
\* remote version, and with the working file, the backup file, the ignore
\* file and the tracker as it found them.
C19_UnknownContext ==
  \A c \in Clients :
    ( /\ inv[c].cmd \in {"pull", "push", "rollback"}
      /\ inv[c].environment \notin DOMAIN remote )
    => /\ pc[c] = "idle"
       /\ exit[c].result = "error" /\ exit[c].code # 0
       /\ \A i \in DOMAIN trace[c] :
            trace[c][i] \notin {"fetch", "submit", "rollback", "remote_read",
                                "backup", "write", "record"}
       /\ sub[c] = <<>>
       /\ envFile[c] = pre[c].envFile
       /\ backupFile[c] = pre[c].backupFile
       /\ gitignore[c] = pre[c].gitignore
       /\ tracker[c] = pre[c].tracker

\* A push of a working file with content, logged in, stopped at the lookup
\* of an environment the listings do not hold.
C19_Witness ==
  \E c \in Clients :
    /\ Done(c, "push") /\ inv[c].environment = "qa"
    /\ exit[c] = Ended(1, "error", "PUSH_ERROR")
    /\ Trim(pre[c].envFile.content) # <<>>

\* C20. Whatever the shared and the local context file hold, a resolution
\* given org, project and environment as flags returns exactly those three
\* values with source "flags".
C20_FlagsWin ==
  ( /\ ret # NotCalled
    /\ args.options.org # "" /\ args.options.project # ""
    /\ args.options.environment # "" )
  => ret = Value(args.options.org, args.options.project, args.options.environment,
                 "flags")

\* C21. A resolution that was not given all three flags and that returns a
\* context returns, for each of org, project and environment on its own, the
\* flag's value if the flag was given, else the local file's value if the
\* local file was read and holds one, else the shared file's value; and it
\* returns a context whenever no file makes the loading fail and each field
\* has a value from one of the three.
C21_FieldwisePrecedence ==
  LET o == args.options
      l == IF ~args.skipLocal /\ args.local.state = "object" THEN args.local
           ELSE ContextFile("absent", "", "", "")
      s == IF args.shared.state = "object" THEN args.shared
           ELSE ContextFile("absent", "", "", "")
      pick(f, lv, sv) == IF f # "" THEN f ELSE IF lv # "" THEN lv ELSE sv
      org == pick(o.org, l.org, s.org)
      project == pick(o.project, l.project, s.project)
      environment == pick(o.environment, l.environment, s.environment)
  IN ( /\ ret # NotCalled
       /\ ~(o.org # "" /\ o.project # "" /\ o.environment # "") )
     => /\ ret.kind = "value"
           => ret.org = org /\ ret.project = project /\ ret.environment = environment
        /\ (ret.kind # "error" /\ org # "" /\ project # "" /\ environment # "")
           => ret.kind = "value"

\* Flag org only, local file with project and environment, complete shared
\* file: the result takes one field from the flag and two from the local file.
C21_Witness ==
  /\ args.options = [org |-> "forg", project |-> "", environment |-> ""]
  /\ args.local = ContextFile("object", "", "lproj", "lenv")
  /\ args.shared = ContextFile("object", "sorg", "sproj", "senv")
  /\ ~args.skipLocal
  /\ ret.kind = "value"
  /\ ret.org = "forg" /\ ret.project = "lproj" /\ ret.environment = "lenv"

\* C22. A resolution that returns a context without having been given all
\* three flags reports the source "local" exactly when it read a local
\* context file holding a mapping (the file is not skipped, exists and parses
\* to a mapping), and "shared" otherwise; no resolution reports a source
\* other than "flags", "local" or "shared".
C22_SourceReported ==
  LET o == args.options
      loaded == ~args.skipLocal /\ args.local.state = "object"
  IN /\ ( /\ ret.kind = "value"
          /\ ~(o.org # "" /\ o.project # "" /\ o.environment # "") )
        => /\ ret.source = "local" <=> loaded
           /\ ret.source = "shared" <=> ~loaded
     /\ ret.kind = "value" => ret.source \in {"flags", "local", "shared"}
     /\ ret.source # "interactive"

\* A local file that holds a mapping without org, project or environment:
\* every field comes from the shared file and the source is still "local".
C22_Witness ==
  /\ args.options = [org |-> "", project |-> "", environment |-> ""]
  /\ args.local = ContextFile("object", "", "", "")
  /\ ~args.skipLocal
  /\ ret = Value("sorg", "sproj", "senv", "local")

\* C23. A resolution whose files loaded and in which org, project or
\* environment has no value from the flags, the local context or the shared
\* context returns null; it has shown no prompt and no file or tracker
\* differs from what it was before the call.
C23_NullWhenMissing ==
  LET o == args.options
      l == IF ~args.skipLocal /\ args.local.state = "object" THEN args.local
           ELSE ContextFile("absent", "", "", "")
      s == IF args.shared.state = "object" THEN args.shared
           ELSE ContextFile("absent", "", "", "")
      missing == \/ o.org = "" /\ l.org = "" /\ s.org = ""
                 \/ o.project = "" /\ l.project = "" /\ s.project = ""
                 \/ o.environment = "" /\ l.environment = "" /\ s.environment = ""
  IN /\ (ret # NotCalled /\ ret.kind # "error" /\ missing) => ret = Null
     /\ ret = Null => missing
     /\ ret # NotCalled
        => /\ \A c \in Clients :
                /\ trace[c] = <<>>
                /\ Snapshot(c) = pre[c]
           /\ remote = InitRemote

\* Flags org and project, a local file without environment, no shared file:
\* null.
C23_Witness ==
  /\ args.options = [org |-> "forg", project |-> "fproj", environment |-> ""]
  /\ args.local = ContextFile("object", "", "", "")
  /\ args.shared.state = "absent"
  /\ ~args.skipLocal
  /\ ret = Null

C25_TokenMode ==
  /\ \A o \in FlagSets, s \in SharedFiles, l \in LocalFiles :
       resolveContext(o, s, l, TRUE) = resolveContext(o, s, NoLocalFile, TRUE)
  /\ \A c \in Clients :
       (inv[c].token /\ inv[c].cmd \in {"pull", "push"})
       => /\ inv[c].environment = context
          /\ \A i \in DOMAIN trace[c] :
               trace[c][i] \notin {"prompt_override", "prompt_force", "prompt_overwrite"}
          /\ (Done(c, "pull") /\ exit[c].result = "success")
               => /\ loc[c].plaintext = PlainAt(context, loc[c].snapshot)
                  /\ envFile[c] =
                       File(formatEnvContent(parseEnvContent(loc[c].plaintext)))

\* A pull in token mode succeeded in a working directory with a local
\* override, and the working file holds the snapshot without it.
C25_Witness ==
  \E c \in Clients :
    /\ Done(c, "pull") /\ inv[c].token /\ exit[c].result = "success"
    /\ <<"B">> \in DOMAIN localOverrides[c]
    /\ loc[c].snapshot = 2
    /\ DOMAIN parseEnvContent(envFile[c].content) = { <<"A">> }

\* C26. What applyOverrides(B, O) returns has exactly the keys of B and the
\* keys of O, with O's value for each key of O and B's value for every other
\* key.  (B and O are values here: the call cannot change them.)
C26_MergeResult ==
  (args.op = "merge" /\ ret # NotCalled)
  => /\ DOMAIN ret.env = (DOMAIN args.base) \cup (DOMAIN args.overrides)
     /\ \A k \in DOMAIN ret.env :
          /\ k \in DOMAIN args.overrides => ret.env[k] = args.overrides[k]
          /\ k \notin DOMAIN args.overrides => ret.env[k] = args.base[k]

\* A merge in which the override replaced one value of the base, kept
\* another and added nothing else.
C26_Witness ==
  /\ args.op = "merge"
  /\ args.base = (<<"A">> :> <<"1">> @@ <<"B">> :> <<"1">>)
  /\ args.overrides = (<<"B">> :> <<"2">>)
  /\ ret # NotCalled
  /\ ret.env = (<<"A">> :> <<"1">> @@ <<"B">> :> <<"2">>)

\* C27. For a mapping whose values hold no newline and neither begin nor end
\* with white space, parsing the text that format gives returns the mapping.
C27_RoundTrip ==
  ( /\ args.op = "format" /\ ret # NotCalled
    /\ \A k \in DOMAIN args.base :
         LET v == args.base[k]
         IN /\ \A i \in DOMAIN v : v[i] # "\n"
            /\ Trim(v) = v )
  => ret.env = args.base

\* The UTF-16 code unit of a character of the model's keys.
CodeUnit(ch) ==
  CASE ch = "1" -> 49 [] ch = "2" -> 50 [] ch = "3" -> 51
    [] ch = "A" -> 65 [] ch = "B" -> 66
    [] ch = "a" -> 97 [] ch = "b" -> 98
    [] OTHER -> 0

\* a before b in ordinal (code-unit) order.
RECURSIVE OrdinalLess(_, _)
OrdinalLess(a, b) ==
  IF b = <<>> THEN FALSE
  ELSE IF a = <<>> THEN TRUE
  ELSE IF CodeUnit(Head(a)) # CodeUnit(Head(b))
       THEN CodeUnit(Head(a)) < CodeUnit(Head(b))
       ELSE OrdinalLess(Tail(a), Tail(b))

\* The keys in ascending ordinal order.
RECURSIVE OrdinalKeys(_)
OrdinalKeys(ks) ==
  IF ks = {} THEN <<>>
  ELSE LET least == CHOOSE k \in ks : \A o \in ks \ {k} : OrdinalLess(k, o)
       IN <<least>> \o OrdinalKeys(ks \ {least})

\* C28. The text format gives for a mapping is its entries, one KEY=VALUE
\* line each, in ascending ordinal (code-unit) order of the keys, each line
\* and so the text ended by one newline; for the empty mapping it is a
\* single newline.
C28_OrdinalLines ==
  (args.op = "format" /\ ret # NotCalled)
  => LET keys == OrdinalKeys(DOMAIN args.base)
     IN /\ ret.text = JoinLines([i \in 1..Len(keys) |->
                                   FormatEntry(keys[i], args.base[keys[i]])]) \o <<"\n">>
        /\ args.base = EmptyEnv => ret.text = <<"\n">>
        /\ Len(SelectSeq(ret.text, LAMBDA ch : ch = "\n")) = IF keys = <<>> THEN 1 ELSE Len(keys)

\* C29. parse passes over exactly the lines that, trimmed, are empty, begin
\* with "#" or hold no "="; every other line gives the key, the trimmed text
\* before the first "=", the value that is the trimmed text after it less one
\* surrounding pair of equal quotes (double or single); the result holds the
\* keys of those lines, each with the value of its last line.
C29_ParseLines ==
  (args.op = "parse" /\ ret # NotCalled)
  => LET lines == SplitLines(args.text)
         t(i) == Trim(lines[i])
         eq(i) == CHOOSE n \in 1..Len(t(i)) :
                    t(i)[n] = "=" /\ \A j \in 1..(n - 1) : t(i)[j] # "="
         ignored(i) == \/ t(i) = <<>>
                       \/ Head(t(i)) = "#"
                       \/ \A n \in 1..Len(t(i)) : t(i)[n] # "="
         key(i) == Trim(SubSeq(t(i), 1, eq(i) - 1))
         rest(i) == Trim(SubSeq(t(i), eq(i) + 1, Len(t(i))))
         paired(i) == /\ Len(rest(i)) >= 2
                      /\ rest(i)[1] = rest(i)[Len(rest(i))]
                      /\ rest(i)[1] \in {"\"", "'"}
         val(i) == IF paired(i) THEN SubSeq(rest(i), 2, Len(rest(i)) - 1) ELSE rest(i)
         kept == {i \in DOMAIN lines : ~ignored(i)}
     IN /\ DOMAIN ret.env = {key(i) : i \in kept}
        /\ \A i \in kept :
             (\A j \in kept : key(j) = key(i) => j <= i) => ret.env[key(i)] = val(i)

\* Two lines with the same key, the second padded and quoted: the value of
\* the second, unquoted, is the result.
C29_Witness ==
  /\ args.op = "parse"
  /\ args.text = <<"A", "=", "1">> \o <<"\n">> \o <<"A", "=", "\"", "x", " ", "y", "\"">>
  /\ ret # NotCalled
  /\ ret.env = (<<"A">> :> <<"x", " ", "y">>)

\* C30. The display shows final values with the overrides applied: every key
\* shown has the value of the local override when the key is a declared
\* override key, and the value of the working file otherwise (masked as the
\* mode asks).
C30_OverridesShown ==
  (args.op = "print" /\ ret # NotCalled)
  => LET env == parseEnvContent(readEnvFile(envFile["c1"]))
         overrides == localOverrides["c1"]
     IN \A k \in DOMAIN ret.keys :
          ret.keys[k] = maskSecret(IF k \in DOMAIN overrides THEN overrides[k] ELSE env[k],
                                   args.json \/ args.raw)

\* C31. Values are masked by default: a display without --raw, plain or JSON,
\* never shows the full value of a variable; a value of at most four
\* characters is shown as "***", a longer one as its first two characters,
\* "***" and its last two characters.
C31_MaskedByDefault ==
  (args.op = "print" /\ ret # NotCalled /\ ~args.raw)
  => LET env == parseEnvContent(readEnvFile(envFile["c1"]))
         stars == <<"*", "*", "*">>
     IN \A k \in DOMAIN ret.keys :
          /\ ret.keys[k] # env[k]
          /\ ret.keys[k] = IF Len(env[k]) <= 4 THEN stars
                           ELSE <<env[k][1], env[k][2]>> \o stars
                                \o <<env[k][Len(env[k]) - 1], env[k][Len(env[k])]>>

\* C33. Whatever other clients push in between, the snapshot a successful
\* rollback writes to the working file and records as base is the version
\* that rollback call created (the version_number the remote rollback
\* returned), not a later one.
C33_RollbackOwnVersion ==
  \A c \in Clients :
    (Done(c, "rollback") /\ exit[c].result = "success")
    => LET e == inv[c].environment
           v == loc[c].version
       IN /\ loc[c].snapshot = v
          /\ tracker[c][KeyOf(c)].base_version = v
          /\ envFile[c] = File(formatEnvContent(
                            applyOverrides(parseEnvContent(PlainAt(e, v)),
                                           localOverrides[c])))

\* C34. A push without --force that the remote accepts without conflict never
\* overwrites a version its working directory did not pull: when the remote
\* holds a version, the base the push sent
\* is the version the directory's working file was last synced from, as its
\* tracker recorded it before the command; this includes the directory whose
\* tracker has no entry for the context.
C34_BaseIsSyncedVersion ==
  \A c \in Clients :
    (/\ inv[c].cmd = "push" /\ ~inv[c].force /\ ~inv[c].token
     /\ sub[c] # <<>> /\ sub[c][1].verdict = "accepted" /\ sub[c][1].at > 0)
    => /\ KeyOf(c) \in DOMAIN pre[c].tracker
       /\ sub[c][1].sent = Some(pre[c].tracker[KeyOf(c)].base_version)

\* C35. A push never modifies the working file: during the command and after
\* every outcome of it (success, conflict, forced retry, declined prompt,
\* error), override keys stripped from the payload or not, the content of
\* the working file is what it was when the command started.
C35_PushKeepsWorkingFile ==
  \A c \in Clients : inv[c].cmd = "push" => envFile[c] = pre[c].envFile

\* A push that stripped an override key from its payload was accepted, and
\* the working file still holds the key.
C35_Witness ==
  \E c \in Clients :
    /\ Done(c, "push") /\ exit[c].result = "success"
    /\ Answered(c, "prompt_override", "no")
    /\ envFile[c].exists
    /\ DOMAIN loc[c].localEnv # DOMAIN parseEnvContent(envFile[c].content)
    /\ envFile[c] = pre[c].envFile

\* C37. Recording a base version for a context changes only the tracker entry
\* of that context: through every command, of a run of commands over several
\* contexts, the entries of all other contexts stay as the command found them
\* (so each still holds what the last successful command for its context
\* wrote), and no entry but the command's own appears.
C37_OtherEntriesKept ==
  \A c \in Clients :
    /\ DOMAIN tracker[c] \subseteq DOMAIN pre[c].tracker \cup {KeyOf(c)}
    /\ \A k \in DOMAIN pre[c].tracker :
         k # KeyOf(c) => k \in DOMAIN tracker[c] /\ tracker[c][k] = pre[c].tracker[k]

\* A directory that began with an empty tracker ran a command for dev and then
\* one for prod: the second recorded its base and the entry of dev is the one
\* the first command wrote.
C37_Witness ==
  \E c \in Clients :
    /\ pc[c] = "idle" /\ exit[c].result = "success"
    /\ KeyOf(c) = VersionKey(Org, Project, "prod")
    /\ DOMAIN pre[c].tracker = {VersionKey(Org, Project, "dev")}
    /\ DOMAIN tracker[c] = {VersionKey(Org, Project, "dev"), VersionKey(Org, Project, "prod")}
    /\ tracker[c][VersionKey(Org, Project, "dev")].base_version > 0
    /\ tracker[c][VersionKey(Org, Project, "dev")] = pre[c].tracker[VersionKey(Org, Project, "dev")]

\* The lines of a .gitignore that are the entry, padding aside.
EntryLines(file, entry) ==
  LET lines == SplitLines(file.content)
  IN {i \in DOMAIN lines : Trim(lines[i]) = entry}

\* C38. After every successful pull the ignore file holds the entries .env,
\* .env.copy and .envsimple.local; the lines it held before are all still in
\* their places, an entry it held is not added again, and ensuring the
\* entries once more on the result leaves the file as it is.
C38_IgnoreEntries ==
  \A c \in Clients :
    (Done(c, "pull") /\ exit[c].result = "success")
    => LET before == IF pre[c].gitignore.exists
                     THEN SplitLines(pre[c].gitignore.content) ELSE <<>>
           after == SplitLines(gitignore[c].content)
       IN /\ gitignore[c].exists
          /\ \A i \in DOMAIN RequiredEntries :
               /\ EntryLines(gitignore[c], RequiredEntries[i]) # {}
               /\ Cardinality(EntryLines(gitignore[c], RequiredEntries[i]))
                    = IF EntryLines(pre[c].gitignore, RequiredEntries[i]) = {} THEN 1
                      ELSE Cardinality(EntryLines(pre[c].gitignore, RequiredEntries[i]))
          /\ Len(before) <= Len(after)
          /\ \A i \in DOMAIN before : after[i] = before[i]
          /\ ensureGitignore(gitignore[c]) = gitignore[c]

\* A pull succeeded in a directory whose ignore file held one of the entries
\* and another line: the other two entries were added after them.
C38_Witness ==
  \E c \in Clients :
    /\ Done(c, "pull") /\ exit[c].result = "success"
    /\ pre[c].gitignore = File(IgnorePartial)
    /\ gitignore[c] # pre[c].gitignore
    /\ Cardinality(EntryLines(gitignore[c], <<".env">>)) = 1
    /\ EntryLines(gitignore[c], <<".envsimple.local">>) # {}

\* C32. No request to delete an environment, soft or permanent, reaches the
\* remote unless the user answered yes to the confirmation of that
\* invocation; after a declined confirmation, and in JSON mode where none can
\* be given, the remote environments and the local and shared context files
\* are as the command found them.
C32_DeleteNeedsYes ==
  \A c \in Clients :
    inv[c].cmd = "env delete"
    => /\ sub[c] # <<>> => Answered(c, "prompt_delete", "yes")
       /\ (Answered(c, "prompt_delete", "no") \/ inv[c].json)
          => /\ sub[c] = <<>>
             /\ remote = pre[c].remote
             /\ context = pre[c].context
             /\ localContext[c] = pre[c].localContext
             /\ localOverrides[c] = pre[c].localOverrides

\* The user declined the deletion of an environment the remote lists, named
\* by the local context file; the command ended without a request.
C32_Witness ==
  \E c \in Clients :
    /\ Done(c, "env delete") /\ exit[c].result = "declined"
    /\ Answered(c, "prompt_delete", "no")
    /\ inv[c].environment \in DOMAIN remote
    /\ localContext[c].environment = inv[c].environment
    /\ sub[c] = <<>>

\* The command of c that just ended switched the local environment.
SwitchedLocal(c) ==
  /\ pc[c] = "idle" /\ exit[c].result = "success"
  /\ \/ inv[c].cmd \in {"env create", "env clone"}
     \/ inv[c].cmd = "update" /\ ~inv[c].arg.shared

\* C36. Switching the local environment (update without --shared, env create,
\* env clone) changes only the environment field of the local context: the
\* overrides mapping and the org and project fields of .envsimple.local are
\* after the command what they were before.
C36_SwitchKeepsOverrides ==
  \A c \in Clients :
    SwitchedLocal(c)
    => /\ localOverrides[c] = pre[c].localOverrides
       /\ localContext[c].org = pre[c].localContext.org
       /\ localContext[c].project = pre[c].localContext.project

==============================================================================
